---- MODULE Spec2Model ----
(***************************************************************************)
(* Model of github.com/mitranim/gos: decoding of SQL result sets into Go   *)
(* structs (src/querying.go, Query at lines 530-554 and the helpers it     *)
(* calls), and of the column-list generator Cols (src/querying.go:963,     *)
(* src/utils.go:68-162).                                                   *)
(*                                                                         *)
(* Go types are modelled as field descriptors.  A struct type is the       *)
(* sequence of its fields; a field is a record                             *)
(*   name, tag (the `db` tag), exported, anon (embedded), ptr (the field   *)
(*   type is a pointer, the only nilable kind in the type universe),       *)
(*   kind ("scalar" or "struct"), scannable (a pointer to the type         *)
(*   implements sql.Scanner), time (the type is time.Time, a leaf without  *)
(*   a Scan method), fields (the fields of a struct kind).                 *)
(* The type universe has at most one pointer level per field and no head   *)
(* field tagged role:"ref", so the loop of src/querying.go:784-795 is the  *)
(* identity on it.                                                         *)
(*                                                                         *)
(* Go values are modelled as records [nil, s, fs]: nil for a nil pointer,  *)
(* s for the content of a scalar, fs for the field values of a struct.     *)
(***************************************************************************)
EXTENDS Integers, Sequences, FiniteSets, TLC

(***************************************************************************)
(* Bounds of the model.                                                    *)
(***************************************************************************)
MaxCols == 2
MaxRows == 2
MaxScans == 3
MaxChain == 3

(***************************************************************************)
(* Cells of a row as the driver reports them.                              *)
(***************************************************************************)
Null == "NULL"
CellValues == {Null, "x"}

(***************************************************************************)
(* Field and type constructors.                                            *)
(***************************************************************************)
Field(name, tag, exported, anon, ptr, kind, scannable, fields) ==
  [name |-> name, tag |-> tag, exported |-> exported, anon |-> anon,
   ptr |-> ptr, kind |-> kind, scannable |-> scannable, time |-> FALSE, fields |-> fields]

Str(name, tag) == Field(name, tag, TRUE, FALSE, FALSE, "scalar", FALSE, <<>>)
PStr(name, tag) == Field(name, tag, TRUE, FALSE, TRUE, "scalar", FALSE, <<>>)
Priv(name, tag) == Field(name, tag, FALSE, FALSE, FALSE, "scalar", FALSE, <<>>)
Scn(name, tag) == Field(name, tag, TRUE, FALSE, FALSE, "scalar", TRUE, <<>>)
Tim(name, tag) == [Str(name, tag) EXCEPT !.time = TRUE]
Rec(name, tag, fields) == Field(name, tag, TRUE, FALSE, FALSE, "struct", FALSE, fields)
PRec(name, tag, fields) == Field(name, tag, TRUE, FALSE, TRUE, "struct", FALSE, fields)
Emb(name, fields) == Field(name, "", TRUE, TRUE, FALSE, "struct", FALSE, fields)
PEmb(name, fields) == Field(name, "", TRUE, TRUE, TRUE, "struct", FALSE, fields)

(***************************************************************************)
(* The record types of the model: the types of the repository's tests      *)
(* (src/main_test.go) and variations of them.  ScanFirst declares a field  *)
(* with a Scan method before a plain one, so that the exit of lines        *)
(* 885-891 can come before the Null error of line 897; ValInVal holds a    *)
(* record by value inside a record held by value.                          *)
(***************************************************************************)
RecordTypes ==
  [ NestPtr     |-> << Str("Val", "val"), PRec("Nested", "nested", << Str("Val", "val") >>) >>,
    NestVal     |-> << Str("Val", "val"), Rec("Nested", "nested", << Str("Val", "val") >>) >>,
    NestPtrBoth |-> << Str("Val", "val"), PRec("Nested", "nested", << PStr("Val", "val") >>) >>,
    NestValPtr  |-> << Str("Val", "val"), Rec("Nested", "nested", << PStr("Val", "val") >>) >>,
    Partial     |-> << PRec("Nested", "nested", << PStr("One", "one"), PStr("Two", "two") >>),
                       Str("Three", "three") >>,
    MissingSrc  |-> << Str("One", "one"), Str("Two", "two"), PStr("Three", "-"),
                       PRec("Four", "", << Str("One", "one") >>), Priv("five", "five") >>,
    Nullability |-> << Str("NonNilable", "non_nilable"), PStr("Nilable", "nilable") >>,
    Deep        |-> << PRec("P", "p", << Str("A", "a"), Rec("Q", "q", << Str("B", "b") >>) >>) >>,
    DeepPtr     |-> << Rec("P", "p", << PStr("A", "a"), PRec("Q", "q", << Str("B", "b") >>) >>) >>,
    DeepBoth    |-> << PRec("P", "p", << Str("A", "a"), PRec("Q", "q", << Str("B", "b") >>) >>) >>,
    Embedded    |-> << Str("A", "a"), Emb("Embedded", << Str("B", "b") >>) >>,
    EmbeddedPtr |-> << Str("A", "a"), PEmb("Embedded", << Str("B", "b") >>) >>,
    EmbeddedPriv|-> << Str("A", "a"),
                       Field("embedded", "", FALSE, TRUE, FALSE, "struct", FALSE,
                             << Str("B", "b") >>) >>,
    Inline      |-> << Str("A", "a"), Str("B", "b") >>,
    Redundant   |-> << Str("X", "a"), PStr("Y", "a") >>,
    RedundantEmb|-> << Str("A", "a"), Emb("Embedded", << Str("A", "a") >>) >>,
    Scannable   |-> << Scn("S", "s"), PStr("T", "t") >>,
    Timed       |-> << Tim("At", "at"), PStr("T", "t") >>,
    ScanFirst   |-> << Scn("S", "s"), Str("V", "v") >>,
    ValInVal    |-> << Rec("P", "p", << PStr("A", "a"), Rec("Q", "q", << Str("B", "b") >>) >>) >>,
    NoLeaves    |-> << Str("A", "a"), Rec("Nested", "nested", << Str("X", "") >>) >> ]

TypeNames == DOMAIN RecordTypes

(***************************************************************************)
(* src/utils.go                                                            *)
(***************************************************************************)
RECURSIVE stringIndexFrom(_, _, _)
stringIndexFrom(strs, str, i) ==
  IF i > Len(strs) THEN -1
  ELSE IF strs[i] = str THEN i
  ELSE stringIndexFrom(strs, str, i + 1)

\* stringIndex answering the last occurrence.
stringLastIndex(strs, str) ==
  IF \E i \in 1..Len(strs) : strs[i] = str
  THEN CHOOSE i \in 1..Len(strs) : strs[i] = str /\ \A j \in (i + 1)..Len(strs) : strs[j] # str
  ELSE -1

\* Index of the first occurrence of str (1-based; the code's index plus one), -1 when absent.
stringIndex(strs, str) == stringIndexFrom(strs, str, 1)

\* sql.Scanner or time.Time.
isScannableRtype(f) == f.time \/ f.scannable

\* The type assertion fieldRval.Addr().Interface().(sql.Scanner), which
\* time.Time fails.
isSqlScanner(f) == f.scannable

isNilableRkind(f) == f.ptr

isRtypeNilable(f) == isNilableRkind(f)

isRtypeStructNonScannable(f) == f.kind = "struct" /\ ~isScannableRtype(f)

IsSfieldExported(f) == f.exported

\* refut.TagIdent: the tag "-" means no column.
sfieldColumnName(f) == IF f.tag = "-" THEN "" ELSE f.tag

RECURSIVE Join(_)
Join(path) ==
  IF Len(path) = 0 THEN ""
  ELSE IF Len(path) = 1 THEN path[1]
  ELSE path[1] \o "." \o Join(Tail(path))

\* The chain is the field followed by its ancestors up to the root's child.
isNilableOrHasNilableNonRootAncestor(chain) ==
  \E i \in 1..Len(chain) : isNilableRkind(chain[i])

(***************************************************************************)
(* src/errors.go: Err values.  isNil marks the nil error; Code "" is       *)
(* ErrCodeUnknown.                                                         *)
(***************************************************************************)
Err(code, while, cause) == [isNil |-> FALSE, Code |-> code, While |-> while, Cause |-> cause]
NilErr == [isNil |-> TRUE, Code |-> "", While |-> "", Cause |-> ""]

ErrCodeNoRows == "ErrNoRows"
ErrCodeMultipleRows == "ErrMultipleRows"
ErrCodeInvalidDest == "ErrInvalidDest"
ErrCodeInvalidInput == "ErrInvalidInput"
ErrCodeNoColDest == "ErrNoColDest"
ErrCodeRedundantCol == "ErrRedundantCol"
ErrCodeNull == "ErrNull"
ErrCodeScan == "ErrScan"

ErrNoRows == Err(ErrCodeNoRows, "", "sql: no rows in result set")
ErrMultipleRows == Err(ErrCodeMultipleRows, "", "expected one row, got multiple")
ErrInvalidDest == Err(ErrCodeInvalidDest, "", "invalid destination")
ErrInvalidInput == Err(ErrCodeInvalidInput, "", "invalid input")
ErrScan == Err(ErrCodeScan, "", "error while scanning row")

while(self, phrase) == [self EXCEPT !.While = phrase]
because(self, cause) == [self EXCEPT !.Cause = cause]

ErrNoColDest == Err(ErrCodeNoColDest, "", "column has no matching destination")
ErrRedundantCol == Err(ErrCodeRedundantCol, "", "redundant column occurrence")
ErrNull == Err(ErrCodeNull, "", "null column for non-nilable field")

\* The error variables of lines 39-46 by name.
ErrVars ==
  [ ErrNoRows |-> ErrNoRows, ErrMultipleRows |-> ErrMultipleRows,
    ErrInvalidDest |-> ErrInvalidDest, ErrInvalidInput |-> ErrInvalidInput,
    ErrNoColDest |-> ErrNoColDest,
    ErrRedundantCol |-> ErrRedundantCol, ErrNull |-> ErrNull, ErrScan |-> ErrScan ]

\* An error with its causes, outermost first.  A link is an Err value without
\* its Cause, or an error of another package, known by its name; the Cause of
\* a link is the rest of the chain, nil when nothing follows.
GosLink(code, phrase) == [gos |-> TRUE, Code |-> code, While |-> phrase, name |-> ""]
Leaf(name) == [gos |-> FALSE, Code |-> "", While |-> "", name |-> name]

\* An Err value of this model, whose Cause is a foreign error or nil, as a chain.
Chain(e) ==
  <<GosLink(e.Code, e.While)>> \o (IF e.Cause = "" THEN <<>> ELSE <<Leaf(e.Cause)>>)

\* Err{While: phrase, Cause: err} around any error.
Wrap(phrase, chain) == <<GosLink("", phrase)>> \o chain

\* Unwrap, line 84: the Cause.
Unwrap(chain) == Tail(chain)

RECURSIVE errorsIs(_, _)

\* Err.Is without the comparison of the codes.
ErrIsCauseOnly(self, other) ==
  Unwrap(self) # <<>> /\ errorsIs(Unwrap(self), other)

\* Err.Is, lines 75-82.
ErrIs(self, other) ==
  \/ Unwrap(self) # <<>> /\ errorsIs(Unwrap(self), other)
  \/ other # <<>> /\ other[1].gos /\ other[1].Code = self[1].Code

\* errors.Is of the standard library: equal values, then the Is method, then
\* the same for what Unwrap gives.
errorsIs(err, target) ==
  IF err = <<>> THEN target = <<>>
  ELSE IF err = target THEN TRUE
  ELSE IF err[1].gos /\ ErrIs(err, target) THEN TRUE
  ELSE IF Unwrap(err) = <<>> THEN FALSE
  ELSE errorsIs(Unwrap(err), target)

\* A method with a value receiver works on a copy: the variable keeps its value.
valueReceiver(table, name, out) == table

\* A panic that unwinds through the decoder, carried like an error up to Query.
Panic == Err("PANIC", "", "panic")

(***************************************************************************)
(* The plan: src/querying.go, prepareDestSpec and traverseMakeSpec.        *)
(* A tFieldSpec is [sfield, colName, colAlias, colIndex, fieldPath,        *)
(* fieldSpecs]; its parent chain is passed along by the traversals.        *)
(* colRtypes maps an alias to the field whose type the column is read as.  *)
(***************************************************************************)
NoSpec == [built |-> FALSE, colNames |-> <<>>, colRtypes |-> <<>>, fieldSpecs |-> <<>>]

RECURSIVE traverseMakeSpec(_, _, _, _, _, _)

\* The outcome of one field: the nested walk's error and aliases, the field's spec.
withNested(r, fieldSpec) ==
  [err |-> r.err, colRtypes |-> r.colRtypes,
   fieldSpec |-> [fieldSpec EXCEPT !.fieldSpecs = r.fieldSpecs]]

\* makeTagged without lines 800-806: a repeated alias replaces the earlier one.
makeTaggedNoCheck(sfield, fieldSpec, colNames, colRtypes, colPath, colAlias) ==
  IF isRtypeStructNonScannable(sfield)
  THEN withNested(traverseMakeSpec(sfield.fields, 1, colNames,
                                   (colAlias :> sfield) @@ colRtypes,
                                   colPath, fieldSpec.fieldPath),
                  fieldSpec)
  ELSE [err |-> NilErr, colRtypes |-> (colAlias :> sfield) @@ colRtypes,
        fieldSpec |-> fieldSpec]

\* Lines 779-815: a field with a column name.
makeTagged(sfield, fieldSpec, colNames, colRtypes, colPath, colAlias) ==
  IF colAlias \in DOMAIN colRtypes
  THEN [err |-> Err(ErrCodeRedundantCol, "preparing destination spec", colAlias),
        colRtypes |-> colRtypes, fieldSpec |-> fieldSpec]
  ELSE IF isRtypeStructNonScannable(sfield)
  THEN withNested(traverseMakeSpec(sfield.fields, 1, colNames,
                                   (colAlias :> sfield) @@ colRtypes,
                                   colPath, fieldSpec.fieldPath),
                  fieldSpec)
  ELSE [err |-> NilErr, colRtypes |-> (colAlias :> sfield) @@ colRtypes,
        fieldSpec |-> fieldSpec]

\* Lines 754-815: the body of the loop for the field sfield at index i.
makeField(sfield, fieldSpec, colNames, colRtypes, colPath) ==
  IF ~IsSfieldExported(sfield)
  THEN [err |-> NilErr, colRtypes |-> colRtypes, fieldSpec |-> fieldSpec]
  ELSE IF sfield.anon /\ sfield.kind = "struct"
  THEN withNested(traverseMakeSpec(sfield.fields, 1, colNames, colRtypes, colPath,
                                   fieldSpec.fieldPath),
                  fieldSpec)
  ELSE IF sfieldColumnName(sfield) = ""
  THEN [err |-> NilErr, colRtypes |-> colRtypes, fieldSpec |-> fieldSpec]
  ELSE makeTagged(sfield,
                  [fieldSpec EXCEPT
                     !.colName = sfieldColumnName(sfield),
                     !.colAlias = Join(Append(colPath, sfieldColumnName(sfield))),
                     !.colIndex = stringIndex(colNames,
                                              Join(Append(colPath, sfieldColumnName(sfield))))],
                  colNames, colRtypes, Append(colPath, sfieldColumnName(sfield)),
                  Join(Append(colPath, sfieldColumnName(sfield))))

prependSpec(fieldSpec, rest) ==
  [err |-> rest.err, colRtypes |-> rest.colRtypes,
   fieldSpecs |-> <<fieldSpec>> \o rest.fieldSpecs]

\* An error ends the walk; otherwise the next field sees the aliases recorded so far.
makeRest(step, typ, i, colNames, colPath, fieldPath) ==
  IF ~step.err.isNil
  THEN [err |-> step.err, colRtypes |-> step.colRtypes, fieldSpecs |-> <<>>]
  ELSE prependSpec(step.fieldSpec,
                   traverseMakeSpec(typ, i + 1, colNames, step.colRtypes, colPath, fieldPath))

\* Returns [err, colRtypes, fieldSpecs] for the fields of typ from index i on.
traverseMakeSpec(typ, i, colNames, colRtypes, colPath, fieldPath) ==
  IF i > Len(typ) THEN [err |-> NilErr, colRtypes |-> colRtypes, fieldSpecs |-> <<>>]
  ELSE makeRest(makeField(typ[i],
                          [sfield |-> typ[i], colName |-> "", colAlias |-> "", colIndex |-> -1,
                           fieldPath |-> Append(fieldPath, i), fieldSpecs |-> <<>>],
                          colNames, colRtypes, colPath),
                typ, i, colNames, colPath, fieldPath)

RECURSIVE firstUnmatched(_, _, _)
firstUnmatched(colNames, colRtypes, i) ==
  IF i > Len(colNames) THEN 0
  ELSE IF colNames[i] \notin DOMAIN colRtypes THEN i
  ELSE firstUnmatched(colNames, colRtypes, i + 1)

\* Lines 714-724: every column needs a destination.
checkColDest(colNames, r) ==
  IF ~r.err.isNil THEN [err |-> r.err, spec |-> NoSpec]
  ELSE IF firstUnmatched(colNames, r.colRtypes, 1) > 0
  THEN [err |-> Err(ErrCodeNoColDest, "preparing destination spec",
                    colNames[firstUnmatched(colNames, r.colRtypes, 1)]),
        spec |-> NoSpec]
  ELSE [err |-> NilErr,
        spec |-> [built |-> TRUE, colNames |-> colNames, colRtypes |-> r.colRtypes,
                  fieldSpecs |-> r.fieldSpecs]]

\* colsErr: rows.Columns() fails.  Returns [err, spec].
prepareDestSpec(colNames, colsErr, typ) ==
  IF colsErr THEN [err |-> Err("", "getting columns", "driver"), spec |-> NoSpec]
  ELSE checkColDest(colNames, traverseMakeSpec(typ, 1, colNames, <<>>, <<>>, <<>>))

(***************************************************************************)
(* Values.                                                                 *)
(***************************************************************************)
NilVal == [nil |-> TRUE, s |-> "", fs |-> <<>>]
Scalar(str) == [nil |-> FALSE, s |-> str, fs |-> <<>>]

RECURSIVE ZeroStruct(_)
\* reflect.Zero of a field's type: nil for a pointer, "" for a scalar.
Zero(f) ==
  IF f.ptr THEN NilVal
  ELSE IF f.kind = "struct" THEN ZeroStruct(f.fields)
  ELSE Scalar("")

\* reflect.New(T).Elem() of a struct type.
ZeroStruct(fields) ==
  [nil |-> FALSE, s |-> "", fs |-> [i \in 1..Len(fields) |-> Zero(fields[i])]]

\* refut.RvalDerefAlloc for a struct or pointer to struct: a nil pointer is allocated.
RvalDerefAlloc(rval, fields) == IF rval.nil THEN ZeroStruct(fields) ELSE rval

RECURSIVE RvalFieldByPathAlloc(_, _, _)
\* Allocates every nil struct pointer on the way to the field at path and
\* leaves the field itself alone.  Returns the new root.
RvalFieldByPathAlloc(rval, fields, path) ==
  LET cur == RvalDerefAlloc(rval, fields)
      i == Head(path)
  IN IF Len(path) = 1 THEN cur
     ELSE [cur EXCEPT !.fs[i] = RvalFieldByPathAlloc(cur.fs[i], fields[i].fields, Tail(path))]

RECURSIVE rvalSetAtPath(_, _, _)
\* Assignment through the reflect.Value that RvalFieldByPathAlloc returned.
rvalSetAtPath(rval, path, val) ==
  LET i == Head(path)
  IN IF Len(path) = 1 THEN [rval EXCEPT !.fs[i] = val]
     ELSE [rval EXCEPT !.fs[i] = rvalSetAtPath(rval.fs[i], Tail(path), val)]

RECURSIVE rvalZeroAtPath(_, _, _)
\* Sets the field at path to the zero value of its type; a nil pointer on
\* the way means there is nothing to zero.
rvalZeroAtPath(rval, fields, path) ==
  LET i == Head(path)
  IN IF rval.nil THEN rval
     ELSE IF Len(path) = 1 THEN [rval EXCEPT !.fs[i] = Zero(fields[i])]
     ELSE [rval EXCEPT !.fs[i] = rvalZeroAtPath(rval.fs[i], fields[i].fields, Tail(path))]

\* set(target, source): the cell's value is stored in the field; a pointer
\* field ends up non-nil and pointing at the value.
set(sfield, cell) ==
  IF sfield.kind = "struct" THEN ZeroStruct(sfield.fields) ELSE Scalar(cell)

(***************************************************************************)
(* The row decoder: src/querying.go, traverseDecode.  cells is the row     *)
(* buffer (state.colPtrs), chain the fieldSpec argument with its parents   *)
(* (empty for the root), scanNil what a field's own Scan(nil) does:        *)
(* "keep" (returns nil and writes nothing, as ScannableStruct of           *)
(* src/main_test.go:817-830), "zero" (returns nil with the zero value      *)
(* stored), "err" or "panic" (as ScannableString, src/main_test.go:798).   *)
(* Returns [err, root].                                                    *)
(***************************************************************************)
RECURSIVE traverseDecode(_, _, _, _, _, _)
RECURSIVE nullPass(_, _, _, _, _, _, _)
RECURSIVE assignPass(_, _, _, _, _, _)

\* After a nested traverseDecode: its error ends the walk, else the loop goes on.
afterDescend(d, rootType, cells, fieldSpecs, chain, scanNil, i) ==
  IF ~d.err.isNil THEN [err |-> d.err, root |-> d.root, every |-> TRUE]
  ELSE nullPass(d.root, rootType, cells, fieldSpecs, chain, scanNil, i + 1)

noteCell(r, cell) == IF cell # Null THEN [r EXCEPT !.every = FALSE] ELSE r

\* Lines 824-863.  Returns [err, root, every]; every is everyColValueIsNil.
nullPass(rootRval, rootType, cells, fieldSpecs, chain, scanNil, i) ==
  IF i > Len(fieldSpecs) THEN [err |-> NilErr, root |-> rootRval, every |-> TRUE]
  ELSE IF /\ IsSfieldExported(fieldSpecs[i].sfield)
          /\ \/ fieldSpecs[i].sfield.anon /\ fieldSpecs[i].sfield.kind = "struct"
             \/ fieldSpecs[i].colName # "" /\ isRtypeStructNonScannable(fieldSpecs[i].sfield)
  THEN afterDescend(traverseDecode(rootRval, rootType, cells, fieldSpecs[i].fieldSpecs,
                                   <<fieldSpecs[i].sfield>> \o chain, scanNil),
                    rootType, cells, fieldSpecs, chain, scanNil, i)
  ELSE IF /\ IsSfieldExported(fieldSpecs[i].sfield)
          /\ fieldSpecs[i].colName # ""
          /\ fieldSpecs[i].colIndex >= 0
  THEN noteCell(nullPass(rootRval, rootType, cells, fieldSpecs, chain, scanNil, i + 1),
                cells[fieldSpecs[i].colIndex])
  ELSE nullPass(rootRval, rootType, cells, fieldSpecs, chain, scanNil, i + 1)

\* assignNull with lines 890-902 replaced by the storing of a zero value.
assignNullZero(rootRval, alloc, rootType, fieldSpec, scanNil) ==
  IF isRtypeNilable(fieldSpec.sfield)
  THEN [err |-> NilErr, root |-> rvalZeroAtPath(rootRval, rootType, fieldSpec.fieldPath)]
  ELSE [err |-> NilErr, root |-> rvalSetAtPath(alloc, fieldSpec.fieldPath, Scalar(""))]

\* assignNull without lines 879-882: a nilable field keeps what it holds.
assignNullKeep(rootRval, alloc, rootType, fieldSpec, scanNil) ==
  IF isRtypeNilable(fieldSpec.sfield)
  THEN [err |-> NilErr, root |-> rootRval]
  ELSE IF isSqlScanner(fieldSpec.sfield)
  THEN IF scanNil = "keep" THEN [err |-> NilErr, root |-> alloc]
       ELSE IF scanNil = "zero"
       THEN [err |-> NilErr, root |-> rvalSetAtPath(alloc, fieldSpec.fieldPath, Scalar(""))]
       ELSE IF scanNil = "panic" THEN [err |-> Panic, root |-> alloc]
       ELSE [err |-> Err(ErrCodeScan, "scanning into field", "field Scan"), root |-> alloc]
  ELSE [err |-> Err(ErrCodeNull, "decoding into struct", fieldSpec.colAlias), root |-> alloc]

\* Lines 878-902: the cell is null.  alloc is the root after RvalFieldByPathAlloc.
\* Returns [err, root]; the loop goes on when err is nil.
assignNull(rootRval, alloc, rootType, fieldSpec, scanNil) ==
  IF isRtypeNilable(fieldSpec.sfield)
  THEN [err |-> NilErr, root |-> rvalZeroAtPath(rootRval, rootType, fieldSpec.fieldPath)]
  ELSE IF isSqlScanner(fieldSpec.sfield)
  THEN IF scanNil = "keep" THEN [err |-> NilErr, root |-> alloc]
       ELSE IF scanNil = "zero"
       THEN [err |-> NilErr, root |-> rvalSetAtPath(alloc, fieldSpec.fieldPath, Scalar(""))]
       ELSE IF scanNil = "panic" THEN [err |-> Panic, root |-> alloc]
       ELSE [err |-> Err(ErrCodeScan, "scanning into field", "field Scan"), root |-> alloc]
  ELSE [err |-> Err(ErrCodeNull, "decoding into struct", fieldSpec.colAlias), root |-> alloc]

\* Lines 875-904: one field that has a column.
assignField(rootRval, alloc, rootType, cell, fieldSpec, scanNil) ==
  IF cell = Null THEN assignNull(rootRval, alloc, rootType, fieldSpec, scanNil)
  ELSE [err |-> NilErr,
        root |-> rvalSetAtPath(alloc, fieldSpec.fieldPath, set(fieldSpec.sfield, cell))]

afterAssign(a, rootType, cells, fieldSpecs, scanNil, i) ==
  IF ~a.err.isNil THEN a
  ELSE assignPass(a.root, rootType, cells, fieldSpecs, scanNil, i + 1)

\* Lines 870-907.  Returns [err, root].
assignPass(rootRval, rootType, cells, fieldSpecs, scanNil, i) ==
  IF i > Len(fieldSpecs) THEN [err |-> NilErr, root |-> rootRval]
  ELSE IF ~(fieldSpecs[i].colIndex >= 0)
  THEN assignPass(rootRval, rootType, cells, fieldSpecs, scanNil, i + 1)
  ELSE afterAssign(assignField(rootRval,
                               RvalFieldByPathAlloc(rootRval, rootType, fieldSpecs[i].fieldPath),
                               rootType, cells[fieldSpecs[i].colIndex], fieldSpecs[i], scanNil),
                   rootType, cells, fieldSpecs, scanNil, i)

\* afterNullPass without lines 865-868: no record is elided.
afterNullPassNoElision(p1, rootType, cells, fieldSpecs, chain, scanNil) ==
  IF ~p1.err.isNil THEN [err |-> p1.err, root |-> p1.root]
  ELSE assignPass(p1.root, rootType, cells, fieldSpecs, scanNil, 1)

\* Lines 865-868: the elision decision, then the second loop.
afterNullPass(p1, rootType, cells, fieldSpecs, chain, scanNil) ==
  IF ~p1.err.isNil THEN [err |-> p1.err, root |-> p1.root]
  ELSE IF p1.every /\ Len(chain) > 0 /\ isNilableOrHasNilableNonRootAncestor(chain)
  THEN [err |-> NilErr, root |-> p1.root]
  ELSE assignPass(p1.root, rootType, cells, fieldSpecs, scanNil, 1)

traverseDecode(rootRval, rootType, cells, fieldSpecs, chain, scanNil) ==
  afterNullPass(nullPass(rootRval, rootType, cells, fieldSpecs, chain, scanNil, 1),
                rootType, cells, fieldSpecs, chain, scanNil)

(***************************************************************************)
(* Column-list generator: src/utils.go:68-162 and Cols,                    *)
(* src/querying.go:963-970.  A sqlIdent is [name, idents].                 *)
(***************************************************************************)
Q == "\""

RECURSIVE TraverseStructRtype(_)
\* The exported fields in declaration order, embedded structs replaced by their fields.
TraverseStructRtype(fields) ==
  IF Len(fields) = 0 THEN <<>>
  ELSE LET sfield == Head(fields)
           here == IF ~IsSfieldExported(sfield) THEN <<>>
                   ELSE IF sfield.anon /\ sfield.kind = "struct"
                   THEN TraverseStructRtype(sfield.fields)
                   ELSE <<sfield>>
       IN here \o TraverseStructRtype(Tail(fields))

RECURSIVE structRtypeSqlIdents(_)
RECURSIVE identsOf(_)
identsOf(sfields) ==
  IF Len(sfields) = 0 THEN <<>>
  ELSE LET sfield == Head(sfields)
           colName == sfieldColumnName(sfield)
           here == IF colName = "" THEN <<>>
                   ELSE IF sfield.kind = "struct" /\ ~isScannableRtype(sfield)
                   THEN << [name |-> colName, idents |-> structRtypeSqlIdents(sfield.fields)] >>
                   ELSE << [name |-> colName, idents |-> <<>>] >>
       IN here \o identsOf(Tail(sfields))

structRtypeSqlIdents(fields) == identsOf(TraverseStructRtype(fields))

appendDelimited(buf, prefix, infix, suffix) == buf \o prefix \o infix \o suffix

RECURSIVE appendPathFrom(_, _, _)
appendPathFrom(buf, path, i) ==
  IF i > Len(path) THEN buf
  ELSE appendPathFrom(
         (IF i = 1 THEN appendDelimited(buf, "(" \o Q, path[i].name, Q \o ")")
          ELSE appendDelimited(buf, Q, path[i].name, Q)) \o ".",
         path, i + 1)

appendPath(self, buf, path) == appendDelimited(appendPathFrom(buf, path, 1), Q, self.name, Q)

RECURSIVE appendAliasFrom(_, _, _)
appendAliasFrom(buf, path, i) ==
  IF i > Len(path) THEN buf
  ELSE appendAliasFrom(buf \o path[i].name \o ".", path, i + 1)

appendAlias(self, buf, path) == appendAliasFrom(buf \o Q, path, 1) \o self.name \o Q

RECURSIVE appendSelect(_, _, _)
RECURSIVE appendSelectEach(_, _, _, _)
appendSelectEach(idents, buf, path, i) ==
  IF i > Len(idents) THEN buf
  ELSE appendSelectEach(idents, appendSelect(idents[i], buf, path), path, i + 1)

appendSelect(self, buf, path) ==
  IF Len(self.idents) > 0
  THEN appendSelectEach(self.idents, buf,
                        IF self.name # "" THEN Append(path, self) ELSE path, 1)
  ELSE IF self.name = "" THEN buf
  ELSE LET sep == IF Len(buf) > 0 THEN buf \o ", " ELSE buf
       IN IF Len(path) = 0 THEN appendAlias(self, sep, <<>>)
          ELSE appendAlias(self, appendPath(self, sep, path) \o " as ", path)

selectString(self) == appendSelect(self, "", <<>>)

RECURSIVE selectAliases(_, _)
RECURSIVE selectAliasesEach(_, _, _)
selectAliasesEach(idents, path, i) ==
  IF i > Len(idents) THEN <<>>
  ELSE selectAliases(idents[i], path) \o selectAliasesEach(idents, path, i + 1)

\* The column names of the selectors appendSelect writes: for each selector
\* what appendAlias puts between the quotes.
selectAliases(self, path) ==
  IF Len(self.idents) > 0
  THEN selectAliasesEach(self.idents, IF self.name # "" THEN Append(path, self) ELSE path, 1)
  ELSE IF self.name = "" THEN <<>>
  ELSE << appendAliasFrom("", path, 1) \o self.name >>

\* The column list of `select <Cols(dest)>`.
ColsAliases(fields) ==
  selectAliases([name |-> "", idents |-> structRtypeSqlIdents(fields)], <<>>)

Cols(fields) == selectString([name |-> "", idents |-> structRtypeSqlIdents(fields)])

(***************************************************************************)
(* Destinations passed to Query.  cls is what the interface value holds:   *)
(* "nilIface", "nilPtr", "nonPtr" or "ptr"; shape is what a pointer points *)
(* at: "record", "recordSeq", "scalar" or "scalarSeq"; tn names the record *)
(* type or the scalar type.  A slice value is [nil, elems, cap].           *)
(***************************************************************************)
ScalarTypes ==
  [ String       |-> Str("", ""),
    StringPtr    |-> PStr("", ""),
    ScannableStr |-> Scn("", "") ]

ScalarNames == DOMAIN ScalarTypes

Dest(cls, shape, tn) == [cls |-> cls, shape |-> shape, tn |-> tn]

Dests ==
  {Dest("nilIface", "", ""), Dest("nilPtr", "record", "Inline"), Dest("nonPtr", "scalar", "String"),
   Dest("nonPtr", "record", "Inline"), Dest("nonPtr", "recordSeq", "Inline")}
  \cup {Dest("ptr", shape, tn) : shape \in {"record", "recordSeq"}, tn \in TypeNames}
  \cup {Dest("ptr", shape, tn) : shape \in {"scalar", "scalarSeq"}, tn \in ScalarNames}

IsSeq(d) == d.shape \in {"recordSeq", "scalarSeq"}
IsRecord(d) == d.shape \in {"record", "recordSeq"}
ElemType(d) == IF IsRecord(d) THEN RecordTypes[d.tn] ELSE ScalarTypes[d.tn]

RECURSIVE Populated(_)
\* A struct value with every pointer allocated and every scalar "old".
Populated(fields) ==
  [nil |-> FALSE, s |-> "",
   fs |-> [i \in 1..Len(fields) |->
             IF fields[i].kind = "struct" THEN Populated(fields[i].fields) ELSE Scalar("old")]]

RECURSIVE AnyScannable(_)
AnyScannable(fields) ==
  \E i \in 1..Len(fields) : fields[i].scannable \/ AnyScannable(fields[i].fields)

\* Whether the destination has a field, or is a scalar, with a Scan method of its own.
HasScanner(d) == IF IsRecord(d) THEN AnyScannable(ElemType(d)) ELSE ElemType(d).scannable

ZeroElem(d) == IF IsRecord(d) THEN ZeroStruct(ElemType(d)) ELSE Zero(ElemType(d))
OldElem(d) == IF IsRecord(d) THEN Populated(ElemType(d)) ELSE Scalar("old")

Slice(isNil, elems, cap) == [nil |-> isNil, elems |-> elems, cap |-> cap]

\* What the destination may hold when Query is called.
PreValues(d) ==
  IF d.cls # "ptr" THEN {NilVal}
  ELSE IF IsSeq(d)
  THEN {Slice(TRUE, <<>>, 0), Slice(FALSE, <<>>, 0), Slice(FALSE, <<OldElem(d)>>, 1),
        Slice(FALSE, <<OldElem(d), OldElem(d)>>, 3)}
  ELSE {ZeroElem(d), OldElem(d)}

RECURSIVE AliasesOf(_, _)
\* Every dotted alias of a record type, the aliases of nested records included.
AliasesOf(fields, colPath) ==
  UNION {
    LET sfield == fields[i]
        colName == sfieldColumnName(sfield)
    IN IF ~IsSfieldExported(sfield) THEN {}
       ELSE IF sfield.anon /\ sfield.kind = "struct" THEN AliasesOf(sfield.fields, colPath)
       ELSE IF colName = "" THEN {}
       ELSE {Join(Append(colPath, colName))}
            \cup (IF sfield.kind = "struct" THEN AliasesOf(sfield.fields, Append(colPath, colName))
                  ELSE {})
    : i \in 1..Len(fields)}

\* The record types that embed a record holding B; Inline has the same fields
\* written inline.
EmbeddingTypes == {"Embedded", "EmbeddedPtr", "EmbeddedPriv"}

\* The column names a query for the destination may report: its aliases and a
\* stranger, and for an embedding type the aliases of its inline form.
ColNamesFor(d) ==
  IF ~IsRecord(d) THEN {"c"}
  ELSE AliasesOf(ElemType(d), <<>>) \cup {"zz"}
       \cup (IF d.tn \in EmbeddingTypes THEN AliasesOf(RecordTypes.Inline, <<>>) ELSE {})

SeqsUpTo(S, n) == UNION {[1..k -> S] : k \in 0..n}

\* The column lists of the queries: short lists of the names above, and for
\* a record the list that Cols names.
ColLists(d) ==
  IF d.cls # "ptr" THEN {<<>>}
  ELSE SeqsUpTo(ColNamesFor(d), MaxCols)
       \cup (IF IsRecord(d) THEN {ColsAliases(ElemType(d))} ELSE {})

(***************************************************************************)
(* src/querying.go: destination checks.                                    *)
(***************************************************************************)
isNilDest(d) == d.cls = "nilIface" \/ d.cls = "nilPtr"

\* validateDestPtr without the check of the kind: every destination passes.
validateDestPtrAny(d) == NilErr

\* Lines 919-927; the two cases of a nil destination never get here (line 531).
validateDestPtr(d) ==
  IF d.cls # "ptr" THEN because(ErrInvalidDest, "destination must be non-nil pointer")
  ELSE NilErr

\* validateMatchingDestType comparing the kinds only: any record for a record.
validateMatchingDestKind(expected, found) ==
  IF expected.shape # found.shape
  THEN because(ErrInvalidDest, "destination must be of the scanner's type")
  ELSE NilErr

validateMatchingDestType(expected, found) ==
  IF expected # found
  THEN because(ErrInvalidDest, "destination must be of the scanner's type")
  ELSE NilErr

expectManyRows(d) == IsSeq(d)

\* rval.SetLen(0): a nil slice stays nil, the capacity stays.
truncateSliceRval(slice) == [slice EXCEPT !.elems = <<>>]

\* reflectAppend with the element put in front of the others.
reflectPrepend(slice, elem) ==
  [nil |-> FALSE, elems |-> <<elem>> \o slice.elems,
   cap |-> IF Len(slice.elems) + 1 <= slice.cap THEN slice.cap
           ELSE IF slice.cap = 0 THEN 1 ELSE 2 * slice.cap]

\* reflect.Append: the backing array grows when it is full.
reflectAppend(slice, elem) ==
  [nil |-> FALSE, elems |-> Append(slice.elems, elem),
   cap |-> IF Len(slice.elems) + 1 <= slice.cap THEN slice.cap
           ELSE IF slice.cap = 0 THEN 1 ELSE 2 * slice.cap]

(***************************************************************************)
(* src/querying.go: scanner.  A scanner is [rtype, spec]; rtype is the     *)
(* destination type of the first Scan, NoType before it.                   *)
(***************************************************************************)
NoType == [shape |-> "", tn |-> ""]
NewScanner == [rtype |-> NoType, spec |-> NoSpec]

\* sql.Rows.Scan into the plan's column slots: the driver's own failure, or
\* a non-null cell for a slot of a struct type, which database/sql cannot store.
rowsScanFails(spec, cells, readErr) ==
  readErr \/ \E i \in 1..Len(spec.colNames) :
               /\ cells[i] # Null
               /\ isRtypeStructNonScannable(spec.colRtypes[spec.colNames[i]])

prepareDecodeState(spec) ==
  IF \E i \in 1..Len(spec.colNames) : spec.colNames[i] \notin DOMAIN spec.colRtypes
  THEN Panic ELSE NilErr

\* The plan of the scanner: the cached one, or a new one.  Returns [err, spec].
specOf(self, typ, in) ==
  IF self.spec.built THEN [err |-> NilErr, spec |-> self.spec]
  ELSE prepareDestSpec(in.cols, in.colsErr, typ)

decodeResult(self, decoded) == [err |-> decoded.err, self |-> self, val |-> decoded.root]

\* Lines 658-676, given the outcome of lines 658-664.
scanStructWith(self, made, typ, rval, in) ==
  IF ~made.err.isNil THEN [err |-> made.err, self |-> self, val |-> rval]
  ELSE IF ~prepareDecodeState(made.spec).isNil
  THEN [err |-> Panic, self |-> [self EXCEPT !.spec = made.spec], val |-> rval]
  ELSE IF rowsScanFails(made.spec, in.cells, in.readErr)
  THEN [err |-> because(ErrScan, "driver"), self |-> [self EXCEPT !.spec = made.spec],
        val |-> rval]
  ELSE decodeResult([self EXCEPT !.spec = made.spec],
                    traverseDecode(rval, typ, in.cells, made.spec.fieldSpecs, <<>>, in.scanNil))

\* in: [cols, cells, colsErr, readErr, scanNil].  Returns [err, self, val].
scanStruct(self, typ, rval, in) == scanStructWith(self, specOf(self, typ, in), typ, rval, in)

\* sql.Rows.Scan(dest) with the one destination the caller gave.
scanScalar(self, typ, rval, in) ==
  LET cell == in.cells[1]
  IN IF in.readErr \/ Len(in.cols) # 1
     THEN [err |-> because(ErrScan, "driver"), self |-> self, val |-> rval]
     ELSE IF cell = Null /\ isNilableRkind(typ)
     THEN [err |-> NilErr, self |-> self, val |-> NilVal]
     ELSE IF cell = Null /\ isSqlScanner(typ)
     THEN IF in.scanNil = "keep" THEN [err |-> NilErr, self |-> self, val |-> rval]
          ELSE IF in.scanNil = "zero" THEN [err |-> NilErr, self |-> self, val |-> Scalar("")]
          ELSE IF in.scanNil = "panic" THEN [err |-> Panic, self |-> self, val |-> rval]
          ELSE [err |-> because(ErrScan, "driver"), self |-> self, val |-> rval]
     ELSE IF cell = Null
     THEN [err |-> because(ErrScan, "driver"), self |-> self, val |-> rval]
     ELSE [err |-> NilErr, self |-> self, val |-> Scalar(cell)]

\* Scan decoding into a copy: the value behind the pointer stays as it was.
ScanIntoCopy(self, rtype, rval, in) ==
  LET matching == IF self.rtype = NoType THEN NilErr
                  ELSE validateMatchingDestType(self.rtype, rtype)
      self1 == IF self.rtype = NoType THEN [self EXCEPT !.rtype = rtype] ELSE self
      isRecord == rtype.shape = "record"
  IN IF ~matching.isNil THEN [err |-> matching, self |-> self, val |-> rval]
     ELSE IF isRecord
     THEN [scanStruct(self1, RecordTypes[rtype.tn], rval, in) EXCEPT !.val = rval]
     ELSE [scanScalar(self1, ScalarTypes[rtype.tn], rval, in) EXCEPT !.val = rval]

\* scanner.Scan with a non-nil pointer to a value of the type rtype.
Scan(self, rtype, rval, in) ==
  LET matching == IF self.rtype = NoType THEN NilErr
                  ELSE validateMatchingDestType(self.rtype, rtype)
      self1 == IF self.rtype = NoType THEN [self EXCEPT !.rtype = rtype] ELSE self
      isRecord == rtype.shape = "record"
  IN IF ~matching.isNil THEN [err |-> matching, self |-> self, val |-> rval]
     ELSE IF isRecord THEN scanStruct(self1, RecordTypes[rtype.tn], rval, in)
     ELSE scanScalar(self1, ScalarTypes[rtype.tn], rval, in)

(***************************************************************************)
(* State.                                                                  *)
(*   pc       where the call is: "idle", "many", "manyScan", "one",        *)
(*            "oneScan", "oneVerify" or "returned"; for a scanner in the   *)
(*            caller's hands "stream", and "streamDone" once Next gave     *)
(*            no row                                                       *)
(*   dest     the destination argument, destVal what it points at now,     *)
(*            pre what it pointed at when Query was called                 *)
(*   cols     the column names the cursor reports                          *)
(*   cursor   the *sql.Rows: whether it is open, the rows yielded so far,  *)
(*            the current row and whether its last error is set            *)
(*   scan     the scanner's rtype and spec                                 *)
(*   ret      what the call returned: kind "none", "ok", "err", "panic"    *)
(*            or "cols"                                                    *)
(*   plan     the last run of prepareDestSpec: its error and its plan      *)
(*   dec      the last run of traverseDecode: the row's cells, the root    *)
(*            before and after, and its error                              *)
(*   cnt      calls made to the provider, the cursor (advances), the       *)
(*            scanner (decodes) and sql.Rows.Scan (reads), and the driver  *)
(*            operation that failed: "", "exec", "open", "columns", "read" *)
(*   colsOut  the string returned by Cols                                  *)
(*   inl      for a destination type with an embedded record, the last     *)
(*            Scan repeated on the type with the fields written inline     *)
(*   errs     the package's error variables, and the last call of while,   *)
(*            because or errors.Is: its operands and its answer            *)
(***************************************************************************)
VARIABLES pc, dest, destVal, pre, cols, cursor, scan, ret, plan, dec, cnt, colsOut, inl, errs

vars == <<pc, dest, destVal, pre, cols, cursor, scan, ret, plan, dec, cnt, colsOut, inl, errs>>

NoCursor == [opened |-> FALSE, closed |-> FALSE, pos |-> 0, cur |-> <<>>, err |-> FALSE]
NoPlan == [ran |-> FALSE, err |-> NilErr, spec |-> NoSpec]
NoDec == [ran |-> FALSE, cells |-> <<>>, before |-> NilVal, after |-> NilVal, err |-> NilErr]
NoRet == [kind |-> "none", err |-> NilErr]
NoInl == [ran |-> FALSE, err |-> NilErr, val |-> NilVal]

Init ==
  /\ pc = "idle"
  /\ dest = Dest("nilIface", "", "")
  /\ destVal = NilVal
  /\ pre = NilVal
  /\ cols = <<>>
  /\ cursor = NoCursor
  /\ scan = NewScanner
  /\ ret = NoRet
  /\ plan = NoPlan
  /\ dec = NoDec
  /\ cnt = [execs |-> 0, opens |-> 0, advances |-> 0, decodes |-> 0, reads |-> 0, fault |-> ""]
  /\ colsOut = ""
  /\ inl = NoInl
  /\ errs = [vars |-> ErrVars, op |-> "", a |-> <<>>, b |-> <<>>, is |-> FALSE]

Rows == [1..Len(cols) -> CellValues]
ScanNilOutcomes == {"keep", "zero", "err", "panic"}

\* What the faults of one Scan can be: rows.Columns() is called while there
\* is no plan, and a field's own Scan exists when a field is scan-capable.
ColsErrs == IF IsRecord(dest) /\ ~scan.spec.built THEN BOOLEAN ELSE {FALSE}
ScanNils == IF HasScanner(dest) THEN ScanNilOutcomes ELSE {"keep"}

\* The value Query returns, or the panic that leaves it.
Returned(err) ==
  IF err = Panic THEN [kind |-> "panic", err |-> NilErr]
  ELSE IF err.isNil THEN [kind |-> "ok", err |-> NilErr]
  ELSE [kind |-> "err", err |-> err]

\* sql.Rows.Close, idempotent.
Close(rows) == [rows EXCEPT !.closed = TRUE]

\* Return with the Close called at the end of Query instead of deferred: a
\* panic leaves the cursor open.
ReturnNoDefer(err, rows) ==
  /\ pc' = "returned"
  /\ ret' = Returned(err)
  /\ cursor' = IF err = Panic THEN rows ELSE Close(rows)

\* Leaving Query after the cursor was opened: the deferred scan.Close() runs.
Return(err, rows) ==
  /\ pc' = "returned"
  /\ ret' = Returned(err)
  /\ cursor' = Close(rows)

\* scanManyHead without the truncation of line 588.
scanManyHeadKeep(slice) == slice

\* scanMany, lines 586-590: the slice is truncated in place before the loop.
scanManyHead(slice) == truncateSliceRval(slice)

\* scanManyFailed with the element of the failed Scan appended.
scanManyFailedAppend(slice, elem) == reflectAppend(slice, elem)

\* scanMany, lines 595-598: a failed Scan returns before the append of
\* line 600, the element is dropped.
scanManyFailed(slice, elem) == slice

\* scanOneNoRow without the check of scan.Err(): NoRows shadows the cursor's error.
scanOneNoRowShadow(failed) == while(ErrNoRows, "preparing row")

\* scanOne, lines 607-613: the first scan.Next() gave no row; failed tells
\* whether scan.Err() is non-nil.
scanOneNoRow(failed) ==
  IF failed THEN Err("", "preparing row", "driver")
  ELSE while(ErrNoRows, "preparing row")

\* scanOneRowCount without the second scan.Next(): further rows are ignored.
scanOneRowCountAny(more) == NilErr

\* scanOne, lines 620-623: more tells whether the second scan.Next() gave a row.
scanOneRowCount(more) ==
  IF more THEN while(ErrMultipleRows, "verifying row count") ELSE NilErr

\* queryExec with the error of ExecContext dropped.
queryExecIgnored(failed) == NilErr

\* Query, lines 531-537: the outcome of conn.ExecContext for a nil destination.
queryExec(failed) ==
  IF failed THEN Err("", "executing query", "driver") ELSE NilErr

\* QueryScanner, lines 481-485: the outcome of conn.QueryContext.
QueryScanner(failed) ==
  IF failed THEN Err("", "querying rows", "driver") ELSE NilErr

\* queryDest with scanMany entered before the cursor is opened.
queryDestEager(d, pv, opened) ==
  IF expectManyRows(d) THEN scanManyHead(pv) ELSE pv

\* Query, lines 544-553: what the destination holds once QueryScanner has
\* returned: scanMany, and its truncation, is reached only with a cursor.
queryDest(d, pv, opened) ==
  IF opened /\ expectManyRows(d) THEN scanManyHead(pv) ELSE pv

\* Query, lines 530-550, and for a slice the head of scanMany, lines 586-590.
QueryCall ==
  /\ pc = "idle"
  /\ \E d \in Dests, fault \in BOOLEAN :
     \E c \in ColLists(d), pv \in PreValues(d) :
       /\ dest' = d
       /\ pre' = pv
       /\ cols' = c
       /\ UNCHANGED <<plan, dec, colsOut, inl, errs>>
       /\ IF isNilDest(d)
          THEN /\ cnt' = [cnt EXCEPT !.execs = @ + 1, !.fault = IF fault THEN "exec" ELSE ""]
               /\ ret' = Returned(queryExec(fault))
               /\ pc' = "returned"
               /\ UNCHANGED <<cursor, scan>>
               /\ destVal' = pv
          ELSE IF ~validateDestPtr(d).isNil
          THEN /\ ret' = Returned(validateDestPtr(d))
               /\ pc' = "returned"
               /\ UNCHANGED <<cursor, scan, cnt>>
               /\ destVal' = pv
          ELSE IF fault
          THEN /\ cnt' = [cnt EXCEPT !.opens = @ + 1, !.fault = "open"]
               /\ ret' = Returned(QueryScanner(fault))
               /\ pc' = "returned"
               /\ UNCHANGED <<cursor, scan>>
               /\ destVal' = queryDest(d, pv, FALSE)
          ELSE /\ cnt' = [cnt EXCEPT !.opens = @ + 1]
               /\ cursor' = [NoCursor EXCEPT !.opened = TRUE]
               /\ scan' = NewScanner
               /\ ret' = NoRet
               /\ destVal' = queryDest(d, pv, TRUE)
               /\ pc' = IF expectManyRows(d) THEN "many" ELSE "one"

\* sql.Rows.Next yields a row.
Advance(row) ==
  [cursor EXCEPT !.pos = @ + 1, !.cur = row]

\* sql.Rows.Next yields no row: the result set ended, or the cursor failed.
Exhaust(failed) == [cursor EXCEPT !.cur = <<>>, !.err = failed]

ElemRtype == [shape |-> IF IsRecord(dest) THEN "record" ELSE "scalar", tn |-> dest.tn]

ScanIn(colsErr, readErr, scanNil) ==
  [cols |-> cols, cells |-> cursor.cur, colsErr |-> colsErr, readErr |-> readErr,
   scanNil |-> scanNil]

planAllowsDecode(made, in) ==
  made.err.isNil /\ ~rowsScanFails(made.spec, in.cells, in.readErr)

\* Whether a Scan got as far as traverseDecode.
decodeRan(self, rtype, in) ==
  /\ rtype.shape = "record"
  /\ self.rtype \in {NoType, rtype}
  /\ planAllowsDecode(specOf(self, RecordTypes[rtype.tn], in), in)

Observed(self, rtype, in, before, r) ==
  IF decodeRan(self, rtype, in)
  THEN [ran |-> TRUE, cells |-> in.cells, before |-> before, after |-> r.val, err |-> r.err]
  ELSE NoDec

planResult(made) == [ran |-> TRUE, err |-> made.err, spec |-> made.spec]

\* The plan is built by the first Scan that gets to scanStruct, once the
\* column list is there (line 658).
Planned(self, rtype, in) ==
  IF /\ rtype.shape = "record"
     /\ self.rtype \in {NoType, rtype}
     /\ ~self.spec.built
     /\ ~in.colsErr
  THEN planResult(prepareDestSpec(in.cols, in.colsErr, RecordTypes[rtype.tn]))
  ELSE plan

\* The driver operation that failed in a Scan: rows.Columns() at line 697, or
\* sql.Rows.Scan at lines 670 and 680.
faultOf(colsErr, r) ==
  IF colsErr /\ r.err = Err("", "getting columns", "driver") THEN "columns"
  ELSE IF r.err = because(ErrScan, "driver") THEN "read"
  ELSE ""

readable(made) == made.err.isNil /\ prepareDecodeState(made.spec).isNil

\* The calls of sql.Rows.Scan in one Scan: line 670 or line 680 is reached.
rowsScanCalls(self, rtype, in) ==
  IF self.rtype \notin {NoType, rtype} THEN 0
  ELSE IF rtype.shape # "record" THEN 1
  ELSE IF readable(specOf(self, RecordTypes[rtype.tn], in)) THEN 1
  ELSE 0

\* The type with the fields of the embedded record written inline.
InlineRtype == [shape |-> "record", tn |-> "Inline"]

\* A value of an embedding type as a value of Inline: A, then the embedded B,
\* which is the zero string while an embedded pointer is nil.
inlineValue(val) ==
  [nil |-> FALSE, s |-> "",
   fs |-> <<val.fs[1], IF val.fs[2].nil THEN Scalar("") ELSE val.fs[2].fs[1]>>]

twinResult(r) == [ran |-> TRUE, err |-> r.err, val |-> r.val]

\* The same Scan, of the same row with the same faults, into the inline form
\* of the destination held before.
InlineTwin(rtype, before, in) ==
  IF rtype.shape = "record" /\ rtype.tn \in EmbeddingTypes
  THEN twinResult(Scan(NewScanner, InlineRtype, inlineValue(before), in))
  ELSE NoInl

\* scanMany, line 592: the loop's scan.Next().
ScanManyNext ==
  /\ pc = "many"
  /\ UNCHANGED <<dest, destVal, pre, cols, scan, plan, dec, colsOut, inl, errs>>
  /\ cnt' = [cnt EXCEPT !.advances = @ + 1]
  /\ \/ /\ cursor.pos < MaxRows
        /\ \E row \in Rows : cursor' = Advance(row)
        /\ pc' = "manyScan"
        /\ UNCHANGED ret
     \/ \E failed \in BOOLEAN : Return(NilErr, Exhaust(failed))

\* scanMany, lines 593-600: one row into a fresh element, appended.
ScanManyScan ==
  /\ pc = "manyScan"
  /\ UNCHANGED <<dest, pre, cols, colsOut, errs>>
  /\ \E colsErr \in ColsErrs, readErr \in BOOLEAN, scanNil \in ScanNils :
     \E r \in {Scan(scan, ElemRtype, ZeroElem(dest), ScanIn(colsErr, readErr, scanNil))} :
          /\ scan' = r.self
          /\ plan' = Planned(scan, ElemRtype, ScanIn(colsErr, readErr, scanNil))
          /\ dec' = Observed(scan, ElemRtype, ScanIn(colsErr, readErr, scanNil),
                             ZeroElem(dest), r)
          /\ inl' = InlineTwin(ElemRtype, ZeroElem(dest), ScanIn(colsErr, readErr, scanNil))
          /\ cnt' = [cnt EXCEPT !.decodes = @ + 1, !.fault = faultOf(colsErr, r),
                             !.reads = @ + rowsScanCalls(scan, ElemRtype,
                                                         ScanIn(colsErr, readErr, scanNil))]
          /\ IF ~r.err.isNil
             THEN Return(r.err, cursor) /\ destVal' = scanManyFailed(destVal, r.val)
             ELSE /\ destVal' = reflectAppend(destVal, r.val)
                  /\ pc' = "many"
                  /\ UNCHANGED <<ret, cursor>>

\* scanOne, lines 607-613.
ScanOneNext ==
  /\ pc = "one"
  /\ UNCHANGED <<dest, destVal, pre, cols, scan, plan, dec, colsOut, inl, errs>>
  /\ cnt' = [cnt EXCEPT !.advances = @ + 1]
  /\ \/ /\ cursor.pos < MaxRows
        /\ \E row \in Rows : cursor' = Advance(row)
        /\ pc' = "oneScan"
        /\ UNCHANGED ret
     \/ \E failed \in BOOLEAN : Return(scanOneNoRow(failed), Exhaust(failed))

\* scanOne, lines 615-618.
ScanOneScan ==
  /\ pc = "oneScan"
  /\ UNCHANGED <<dest, pre, cols, colsOut, errs>>
  /\ \E colsErr \in ColsErrs, readErr \in BOOLEAN, scanNil \in ScanNils :
     \E r \in {Scan(scan, ElemRtype, destVal, ScanIn(colsErr, readErr, scanNil))} :
          /\ scan' = r.self
          /\ plan' = Planned(scan, ElemRtype, ScanIn(colsErr, readErr, scanNil))
          /\ dec' = Observed(scan, ElemRtype, ScanIn(colsErr, readErr, scanNil), destVal, r)
          /\ inl' = InlineTwin(ElemRtype, destVal, ScanIn(colsErr, readErr, scanNil))
          /\ cnt' = [cnt EXCEPT !.decodes = @ + 1, !.fault = faultOf(colsErr, r),
                             !.reads = @ + rowsScanCalls(scan, ElemRtype,
                                                         ScanIn(colsErr, readErr, scanNil))]
          /\ destVal' = r.val
          /\ IF ~r.err.isNil
             THEN Return(r.err, cursor)
             ELSE pc' = "oneVerify" /\ UNCHANGED <<ret, cursor>>

\* scanOne, lines 620-623.
ScanOneVerify ==
  /\ pc = "oneVerify"
  /\ UNCHANGED <<dest, destVal, pre, cols, scan, plan, dec, colsOut, inl, errs>>
  /\ cnt' = [cnt EXCEPT !.advances = @ + 1]
  /\ \/ /\ cursor.pos < MaxRows
        /\ \E row \in Rows : Return(scanOneRowCount(TRUE), Advance(row))
     \/ \E failed \in BOOLEAN : Return(scanOneRowCount(FALSE), Exhaust(failed))

\* Cols(dest) for a value of a record type.
ColsCall ==
  /\ pc = "idle"
  /\ \E tn \in TypeNames :
       /\ dest' = Dest("nonPtr", "record", tn)
       /\ colsOut' = Cols(RecordTypes[tn])
  /\ pc' = "returned"
  /\ ret' = [kind |-> "cols", err |-> NilErr]
  /\ UNCHANGED <<destVal, pre, cols, cursor, scan, plan, dec, cnt, inl, errs>>

(***************************************************************************)
(* The scanner in the caller's hands: QueryScanner, then Next, Scan and     *)
(* Close in any order, at most MaxScans calls of Scan.                      *)
(***************************************************************************)
\* What the caller passes to Scan.
StreamDests ==
  {Dest("ptr", "record", "Inline"), Dest("ptr", "record", "Nullability"),
   Dest("ptr", "scalar", "String"), Dest("ptr", "scalar", "StringPtr"),
   Dest("nilPtr", "record", "Inline"), Dest("nonPtr", "scalar", "String")}

StreamCols == SeqsUpTo({"a", "b", "nilable"}, MaxCols)

\* reflect.TypeOf(dest) for a pointer destination.
RtypeOf(d) == [shape |-> d.shape, tn |-> d.tn]

\* scanner.Scan, lines 632-655, with any destination.
scannerScan(self, d, rval, in) ==
  IF ~validateDestPtr(d).isNil
  THEN [err |-> validateDestPtr(d), self |-> self, val |-> rval]
  ELSE Scan(self, RtypeOf(d), rval, in)

\* QueryScanner, lines 480-486.
StreamOpen ==
  /\ pc = "idle"
  /\ UNCHANGED <<dest, destVal, pre, plan, dec, colsOut, inl, errs>>
  /\ \E fault \in BOOLEAN, c \in StreamCols :
       /\ cols' = c
       /\ cnt' = [cnt EXCEPT !.opens = @ + 1, !.fault = IF fault THEN "open" ELSE ""]
       /\ ret' = Returned(QueryScanner(fault))
       /\ scan' = NewScanner
       /\ IF fault THEN pc' = "returned" /\ UNCHANGED cursor
          ELSE pc' = "stream" /\ cursor' = [NoCursor EXCEPT !.opened = TRUE]

\* sql.Rows.Next through the scanner.
StreamNext ==
  /\ pc = "stream"
  /\ UNCHANGED <<dest, destVal, pre, cols, scan, ret, plan, dec, colsOut, inl, errs>>
  /\ cnt' = [cnt EXCEPT !.advances = @ + 1]
  /\ \/ /\ cursor.pos < MaxRows
        /\ \E row \in Rows : cursor' = Advance(row)
        /\ pc' = "stream"
     \/ \E failed \in BOOLEAN : cursor' = Exhaust(failed) /\ pc' = "streamDone"

\* scanner.Scan called by the holder of the scanner; with no current row
\* (before the first Next, or after a Next that returned false) sql.Rows.Scan
\* fails.  A row of a result without columns is a current row.
StreamScan ==
  /\ pc \in {"stream", "streamDone"}
  /\ cnt.decodes < MaxScans
  /\ UNCHANGED <<pc, cols, cursor, colsOut, inl, errs>>
  /\ \E d \in StreamDests :
     \E pv \in PreValues(d),
        colsErr \in (IF d.shape = "record" /\ ~scan.spec.built THEN BOOLEAN ELSE {FALSE}),
        readErr \in (IF pc = "stream" /\ cursor.pos > 0 THEN BOOLEAN ELSE {TRUE}) :
     \E r \in {scannerScan(scan, d, pv, ScanIn(colsErr, readErr, "keep"))} :
          /\ dest' = d
          /\ pre' = pv
          /\ destVal' = r.val
          /\ scan' = r.self
          /\ ret' = Returned(r.err)
          /\ plan' = IF d.cls = "ptr"
                     THEN Planned(scan, RtypeOf(d), ScanIn(colsErr, readErr, "keep"))
                     ELSE plan
          /\ dec' = IF d.cls = "ptr"
                    THEN Observed(scan, RtypeOf(d), ScanIn(colsErr, readErr, "keep"), pv, r)
                    ELSE NoDec
          /\ cnt' = [cnt EXCEPT !.decodes = @ + 1,
                                !.fault = IF d.cls = "ptr" THEN faultOf(colsErr, r) ELSE "",
                                !.reads = @ + IF d.cls = "ptr"
                                              THEN rowsScanCalls(scan, RtypeOf(d),
                                                     ScanIn(colsErr, readErr, "keep"))
                                              ELSE 0]

\* sql.Rows.Close through the scanner.
StreamClose ==
  /\ pc \in {"stream", "streamDone"}
  /\ cursor' = Close(cursor)
  /\ pc' = "returned"
  /\ UNCHANGED <<dest, destVal, pre, cols, scan, ret, plan, dec, cnt, colsOut, inl, errs>>

NextStream ==
  \/ StreamOpen
  \/ StreamNext
  \/ StreamScan
  \/ StreamClose

SpecStream == Init /\ [][NextStream]_vars

(***************************************************************************)
(* The errors of the package compared: errors.Is on two gos errors, and    *)
(* the methods while and because on an error variable.                     *)
(***************************************************************************)
Phrases == {"preparing row", "querying rows"}
ForeignErrs == {"driver", "sql: no rows in result set"}

\* The Err values the package returns, with one foreign cause or none.
FlatErrs ==
  {errs.vars[x] : x \in DOMAIN errs.vars}
  \cup {while(errs.vars[x], "preparing row") : x \in DOMAIN errs.vars}
  \cup {because(errs.vars[x], "driver") : x \in DOMAIN errs.vars}
  \cup {Err("", w, c) : w \in Phrases, c \in ForeignErrs \cup {""}}

RECURSIVE ChainsUpTo(_)
\* The gos errors with at most n links: a gos error may be the Cause of another.
ChainsUpTo(n) ==
  IF n <= 2 THEN {Chain(e) : e \in FlatErrs}
  ELSE ChainsUpTo(n - 1)
       \cup {Wrap("querying rows", c) : c \in {d \in ChainsUpTo(n - 1) : Len(d) < n}}

GosErrs == ChainsUpTo(MaxChain)

\* errors.Is(a, b).
IsCall ==
  /\ pc = "idle"
  /\ pc' = "returned"
  /\ \E a \in GosErrs, b \in GosErrs :
       errs' = [errs EXCEPT !.op = "is", !.a = a, !.b = b, !.is = errorsIs(a, b)]
  /\ UNCHANGED <<dest, destVal, pre, cols, cursor, scan, ret, plan, dec, cnt, colsOut, inl>>

\* X.while(phrase) on an error variable X, then errors.Is(result, X).
WhileCall ==
  /\ pc = "idle"
  /\ pc' = "returned"
  /\ \E x \in DOMAIN errs.vars, w \in Phrases :
     \E out \in {while(errs.vars[x], w)} :
     \E table \in {valueReceiver(errs.vars, x, out)} :
       errs' = [vars |-> table, op |-> "while", a |-> Chain(out), b |-> Chain(table[x]),
                is |-> errorsIs(Chain(out), Chain(table[x]))]
  /\ UNCHANGED <<dest, destVal, pre, cols, cursor, scan, ret, plan, dec, cnt, colsOut, inl>>

\* X.because(cause) on an error variable X, then errors.Is(result, X).
BecauseCall ==
  /\ pc = "idle"
  /\ pc' = "returned"
  /\ \E x \in DOMAIN errs.vars, c \in ForeignErrs :
     \E out \in {because(errs.vars[x], c)} :
     \E table \in {valueReceiver(errs.vars, x, out)} :
       errs' = [vars |-> table, op |-> "because", a |-> Chain(out), b |-> Chain(table[x]),
                is |-> errorsIs(Chain(out), Chain(table[x]))]
  /\ UNCHANGED <<dest, destVal, pre, cols, cursor, scan, ret, plan, dec, cnt, colsOut, inl>>

NextErrors ==
  \/ IsCall
  \/ WhileCall
  \/ BecauseCall

SpecErrors == Init /\ [][NextErrors]_vars

Next ==
  \/ QueryCall
  \/ ScanManyNext
  \/ ScanManyScan
  \/ ScanOneNext
  \/ ScanOneScan
  \/ ScanOneVerify
  \/ ColsCall

Spec == Init /\ [][Next]_vars

(***************************************************************************)
(* Vocabulary of the properties: the nodes of a plan, the value a          *)
(* destination holds at a field path.                                      *)
(***************************************************************************)
RECURSIVE SpecNodes(_, _)
\* Every field of the plan with its chain: the field, then its parents.
SpecNodes(fieldSpecs, chain) ==
  UNION { {[spec |-> fieldSpecs[i], chain |-> <<fieldSpecs[i].sfield>> \o chain]}
          \cup SpecNodes(fieldSpecs[i].fieldSpecs, <<fieldSpecs[i].sfield>> \o chain)
        : i \in 1..Len(fieldSpecs) }

PlanNodes == SpecNodes(scan.spec.fieldSpecs, <<>>)

\* A field the traversals descend into: an embedded record or a tagged record.
IsNestedNode(n) ==
  /\ n.spec.sfield.exported
  /\ n.spec.sfield.kind = "struct"
  /\ ~n.spec.sfield.scannable
  /\ (n.spec.sfield.anon \/ n.spec.colName # "")

\* A scalar field with a column of the current column list.
IsMappedLeaf(n) == n.spec.sfield.kind = "scalar" /\ n.spec.colIndex >= 0

NestedNodes == {n \in PlanNodes : IsNestedNode(n)}

\* The mapped leaves anywhere below a node, and those directly in it.
MappedLeavesBelow(n) == {l \in SpecNodes(n.spec.fieldSpecs, n.chain) : IsMappedLeaf(l)}
DirectMappedLeaves(fieldSpecs, chain) ==
  {l \in SpecNodes(fieldSpecs, chain) : IsMappedLeaf(l) /\ Len(l.chain) = Len(chain) + 1}

CellIsNull(l) == dec.cells[l.spec.colIndex] = Null

\* Its own field type is nilable, or a nested ancestor below the root is.
Elidable(chain) == \E i \in 1..Len(chain) : chain[i].ptr

\* The decision of lines 865-868 for the record whose chain is given.
Elided(fieldSpecs, chain) ==
  /\ Len(chain) > 0
  /\ Elidable(chain)
  /\ \A l \in DirectMappedLeaves(fieldSpecs, chain) : CellIsNull(l)

\* The mapped leaves with the record that holds them not elided.
LiveLeaves ==
  {l \in DirectMappedLeaves(scan.spec.fieldSpecs, <<>>) : TRUE}
  \cup UNION { {l \in DirectMappedLeaves(n.spec.fieldSpecs, n.chain) :
                  ~Elided(n.spec.fieldSpecs, n.chain)} : n \in NestedNodes }

RECURSIVE rvalAtPath(_, _)
\* The value at a field path; NilVal when a pointer on the way, or the field, is nil.
rvalAtPath(rval, path) ==
  IF rval.nil THEN NilVal
  ELSE IF Len(path) = 0 THEN rval
  ELSE rvalAtPath(rval.fs[Head(path)], Tail(path))

Absent(rval, path) == rvalAtPath(rval, path).nil

\* The error is a Null error for a leaf below the node.
NullErrorBelow(err, n) ==
  /\ err.Code = ErrCodeNull
  /\ \E l \in MappedLeavesBelow(n) : err.Cause = l.spec.colAlias

\* The case of C1: an absent nested field, elidable, with every mapped leaf null.
ElisionCase(n) ==
  /\ Absent(dec.before, n.spec.fieldPath)
  /\ Elidable(n.chain)
  /\ \A l \in MappedLeavesBelow(n) : CellIsNull(l)

Front(path) == SubSeq(path, 1, Len(path) - 1)

\* The record that holds the field at path is there.
Held(rval, path) == ~Absent(rval, Front(path))

\* The value of the field at path, for a field that is held.
FieldValue(rval, path) == rvalAtPath(rval, Front(path)).fs[path[Len(path)]]

RECURSIVE TypeLeaves(_, _)
\* The field paths of all scalar fields of a record type, tagged or not.
TypeLeaves(fields, prefix) ==
  UNION { IF fields[i].kind = "struct"
          THEN TypeLeaves(fields[i].fields, Append(prefix, i))
          ELSE {Append(prefix, i)}
        : i \in 1..Len(fields) }

MappedPaths == {l.spec.fieldPath : l \in {n \in PlanNodes : IsMappedLeaf(n)}}

\* The leaves with column index -1: no tag, tag "-", unexported, alias not in C.
UnmappedLeaves == TypeLeaves(RecordTypes[dest.tn], <<>>) \ MappedPaths

(***************************************************************************)
(* C1..C3, C9: the row decoder.                                            *)
(***************************************************************************)
\* C1 as stated: decoding a row into a record whose nested field is absent,
\* elidable and has every mapped leaf null raises no Null error for the
\* node and leaves the nested field absent.
C1_ElidedStaysAbsent ==
  dec.ran =>
    \A n \in NestedNodes :
      ElisionCase(n) =>
        /\ ~NullErrorBelow(dec.err, n)
        /\ Absent(dec.after, n.spec.fieldPath)

\* C1: decoding a row into a record whose nested field is absent, elidable
\* and has every mapped leaf null raises no Null error for the node and
\* writes nothing into it: a nested field of a nilable type is still absent
\* afterwards, and one held by value under a nilable ancestor is absent or,
\* when the ancestor was allocated for another column, holds its zero value.
C1_ElidedNotWritten ==
  dec.ran =>
    \A n \in NestedNodes :
      ElisionCase(n) =>
        /\ ~NullErrorBelow(dec.err, n)
        /\ IF n.spec.sfield.ptr
           THEN Absent(dec.after, n.spec.fieldPath)
           ELSE \/ Absent(dec.after, n.spec.fieldPath)
                \/ rvalAtPath(dec.after, n.spec.fieldPath) = ZeroStruct(n.spec.sfield.fields)

\* A row with a non-null root column and a null column of a nilable nested
\* record decoded with success, the nested field absent before and after.
C1_Witness ==
  /\ dec.ran /\ dec.err.isNil
  /\ \E n \in NestedNodes :
       /\ ElisionCase(n)
       /\ n.spec.sfield.ptr
       /\ MappedLeavesBelow(n) # {}
       /\ Absent(dec.after, n.spec.fieldPath)
  /\ \E l \in DirectMappedLeaves(scan.spec.fieldSpecs, <<>>) : ~CellIsNull(l)

\* The leaf has a null cell and a type that takes no null: neither nilable
\* nor scan-capable.
StrictNull(l) == CellIsNull(l) /\ ~l.spec.sfield.ptr /\ ~l.spec.sfield.scannable

\* The leaf got a null cell and is left to its own Scan(nil).
LeftToScanNil(l) == CellIsNull(l) /\ ~l.spec.sfield.ptr /\ isSqlScanner(l.spec.sfield)

\* The decode ended in the failure of a field's own Scan(nil): its error,
\* returned with code Scan (line 888), or its panic.
ScanNilFailed(err) ==
  err = Panic \/ (err.Code = ErrCodeScan /\ err.While = "scanning into field")

\* C2: in a record that is not elided, a mapped direct leaf whose cell is
\* null and whose type is neither nilable nor scan-capable makes the decode
\* fail, with code Null unless the row has a null cell for a non-nilable
\* scan-capable field of a record that is not elided and the decode ended in
\* the failure of a field's Scan(nil).
C2_NullOrScanNilFailure ==
  dec.ran =>
    \A l \in LiveLeaves :
      StrictNull(l) =>
        /\ ~dec.err.isNil
        /\ \/ dec.err.Code = ErrCodeNull
           \/ ScanNilFailed(dec.err) /\ \E f \in LiveLeaves : LeftToScanNil(f)

\* A scan-capable field declared before a plain string, both cells null: the
\* decode ends with the error of the field's Scan(nil), not with Null.
C2_WitnessScanFirst ==
  /\ dec.ran
  /\ dest.tn = "ScanFirst"
  /\ \A l \in LiveLeaves : CellIsNull(l)
  /\ \E l \in LiveLeaves : StrictNull(l)
  /\ dec.err = Err(ErrCodeScan, "scanning into field", "field Scan")

\* C2 as stated: in a record that is not elided, a mapped direct leaf whose
\* cell is null and whose type is neither nilable nor scan-capable makes the
\* decode fail with code Null.
C2_NullIntoNonNilable ==
  dec.ran =>
    \A l \in LiveLeaves :
      (CellIsNull(l) /\ ~l.spec.sfield.ptr /\ ~l.spec.sfield.scannable)
        => (~dec.err.isNil /\ dec.err.Code = ErrCodeNull)

\* A nested record held by value with no nilable ancestor, its only mapped
\* leaf null: the decode fails with Null citing that leaf.
C2_Witness ==
  /\ dec.ran
  /\ dest.tn = "NestVal"
  /\ \E l \in LiveLeaves :
       /\ Len(l.chain) = 2
       /\ CellIsNull(l)
       /\ ~l.spec.sfield.ptr
       /\ dec.err.Code = ErrCodeNull
       /\ dec.err.Cause = l.spec.colAlias
  /\ \E l \in DirectMappedLeaves(scan.spec.fieldSpecs, <<>>) : ~CellIsNull(l)

\* C3: after a successful decode every leaf without a column that the
\* destination held before is still held and has the value it had before.
C3_UnmappedKept ==
  (dec.ran /\ dec.err.isNil) =>
    \A path \in UnmappedLeaves :
      Held(dec.before, path) =>
        (Held(dec.after, path) /\ FieldValue(dec.after, path) = FieldValue(dec.before, path))

\* A successful decode stores into no leaf without a column: a leaf held by
\* the destination before and after the decode has the value it had before.
C3_UnmappedUntouched ==
  (dec.ran /\ dec.err.isNil) =>
    \A path \in UnmappedLeaves :
      (Held(dec.before, path) /\ Held(dec.after, path))
        => FieldValue(dec.after, path) = FieldValue(dec.before, path)

\* A successful decode that assigned a cell to one leaf while another leaf,
\* without a column, keeps the value it held before.
C3_Witness ==
  /\ dec.ran /\ dec.err.isNil
  /\ dest.tn = "MissingSrc"
  /\ \E l \in LiveLeaves : FieldValue(dec.after, l.spec.fieldPath) = Scalar("x")
  /\ \E path \in UnmappedLeaves :
       /\ Held(dec.before, path) /\ Held(dec.after, path)
       /\ FieldValue(dec.before, path) = Scalar("old")
       /\ FieldValue(dec.after, path) = Scalar("old")

\* C9: after a successful decode, a mapped leaf of a nilable type whose cell
\* was null, in a record that was not elided, is absent whatever it held.
C9_NullZeroesNilable ==
  (dec.ran /\ dec.err.isNil) =>
    \A l \in LiveLeaves :
      (CellIsNull(l) /\ l.spec.sfield.ptr) => Absent(dec.after, l.spec.fieldPath)

\* A nilable leaf that held a value before the decode and is nil after it,
\* in a record that is still there.
C9_Witness ==
  /\ dec.ran /\ dec.err.isNil
  /\ \E l \in LiveLeaves :
       /\ CellIsNull(l) /\ l.spec.sfield.ptr
       /\ ~Absent(dec.before, l.spec.fieldPath)
       /\ Held(dec.after, l.spec.fieldPath)
       /\ Absent(dec.after, l.spec.fieldPath)

(***************************************************************************)
(* C4: the plan builder.                                                   *)
(***************************************************************************)
RECURSIVE AliasSeq(_, _)
\* The dotted aliases of the tagged fields of a record type in declaration
\* order, embedded records flattened, one entry per field.
AliasSeq(fields, colPath) ==
  IF Len(fields) = 0 THEN <<>>
  ELSE (IF ~fields[1].exported THEN <<>>
        ELSE IF fields[1].anon /\ fields[1].kind = "struct"
        THEN AliasSeq(fields[1].fields, colPath)
        ELSE IF fields[1].tag \in {"", "-"} THEN <<>>
        ELSE <<Join(Append(colPath, fields[1].tag))>>
             \o (IF fields[1].kind = "struct" /\ ~fields[1].scannable
                 THEN AliasSeq(fields[1].fields, Append(colPath, fields[1].tag))
                 ELSE <<>>))
       \o AliasSeq(Tail(fields), colPath)

Range(seq) == {seq[i] : i \in 1..Len(seq)}

HasDuplicate(seq) == \E i, j \in 1..Len(seq) : i < j /\ seq[i] = seq[j]

TaggedNodes(spec) == {n \in SpecNodes(spec.fieldSpecs, <<>>) : n.spec.colAlias # ""}

\* I2: every name of C is an alias recorded in the plan.
PlanCoversColumns(spec) == \A i \in 1..Len(cols) : cols[i] \in DOMAIN spec.colRtypes

\* I1: no alias is recorded twice.
PlanAliasesUnique(spec) ==
  /\ \A m, n \in TaggedNodes(spec) :
       m.spec.colAlias = n.spec.colAlias => m.spec.fieldPath = n.spec.fieldPath
  /\ DOMAIN spec.colRtypes = {n.spec.colAlias : n \in TaggedNodes(spec)}

\* C4: building the plan for R and C fails with RedundantCol when two tagged
\* fields of R have the same dotted alias, else fails with NoColDest when a
\* name of C is no alias of R, and else succeeds with a plan that records
\* every name of C as an alias and no alias twice.
C4_PlanBuild ==
  plan.ran =>
    IF HasDuplicate(AliasSeq(RecordTypes[dest.tn], <<>>))
    THEN ~plan.err.isNil /\ plan.err.Code = ErrCodeRedundantCol
    ELSE IF \E i \in 1..Len(cols) : cols[i] \notin Range(AliasSeq(RecordTypes[dest.tn], <<>>))
    THEN ~plan.err.isNil /\ plan.err.Code = ErrCodeNoColDest
    ELSE /\ plan.err.isNil
         /\ plan.spec.built
         /\ PlanCoversColumns(plan.spec)
         /\ PlanAliasesUnique(plan.spec)

\* A plan built with success for a column list of a root leaf and a nested leaf.
C4_Witness ==
  /\ plan.ran /\ plan.err.isNil
  /\ Len(cols) = MaxCols
  /\ \E i, j \in 1..Len(cols) : cols[i] # cols[j]
  /\ \E n \in TaggedNodes(plan.spec) : Len(n.chain) = 2 /\ n.spec.colIndex >= 0
  /\ PlanCoversColumns(plan.spec)
  /\ PlanAliasesUnique(plan.spec)

(***************************************************************************)
(* C5..C8: Query.                                                          *)
(***************************************************************************)
SingleReturned ==
  pc = "returned" /\ dest.cls = "ptr" /\ ~IsSeq(dest) /\ cursor.opened

\* C5: for a single record or scalar, when the first advance yields no row
\* Query returns the cursor's error wrapped with `preparing row` if there is
\* one and NoRows otherwise, never success, and the destination is as it was.
C5_NoRow ==
  (SingleReturned /\ cursor.pos = 0) =>
    /\ ret.kind = "err"
    /\ cursor.err => (ret.err.While = "preparing row" /\ ret.err.Cause = "driver"
                      /\ ret.err.Code # ErrCodeNoRows)
    /\ ~cursor.err => ret.err.Code = ErrCodeNoRows
    /\ destVal = pre

\* The cursor failed on the first advance into a destination that held a value.
C5_Witness ==
  /\ SingleReturned /\ cursor.pos = 0 /\ cursor.err
  /\ pre = OldElem(dest) /\ destVal = pre
  /\ ret.err = Err("", "preparing row", "driver")

\* C6: for a single record or scalar, a second row after the first was
\* decoded makes Query return MultipleRows; Query returns success only
\* when the cursor yielded exactly one row.
C6_MultipleRows ==
  SingleReturned =>
    /\ cursor.pos >= 2 => (ret.kind = "err" /\ ret.err.Code = ErrCodeMultipleRows)
    /\ ret.kind = "ok" => cursor.pos = 1

\* The first row was decoded, the second advance yielded a row.
C6_Witness ==
  /\ SingleReturned /\ cursor.pos = 2
  /\ cnt.decodes = 1
  /\ ret.err = while(ErrMultipleRows, "verifying row count")

Max(a, b) == IF a >= b THEN a ELSE b

\* C7: for a sequence of initial length N and M rows that all decode, the
\* sequence ends with length M and capacity at least max(N, M), with none of
\* its prior elements, and with M = 0 a nil sequence is nil and a non-nil
\* sequence is non-nil and empty.
C7_SeqLength ==
  (pc = "returned" /\ dest.cls = "ptr" /\ IsSeq(dest) /\ ret.kind = "ok") =>
    /\ Len(destVal.elems) = cursor.pos
    /\ destVal.cap >= Max(Len(pre.elems), cursor.pos)
    /\ \A i \in 1..Len(destVal.elems), j \in 1..Len(pre.elems) :
         destVal.elems[i] # pre.elems[j]
    /\ cursor.pos = 0 => (destVal.nil = pre.nil /\ destVal.elems = <<>>)

\* A sequence of two elements decoded from one row: one element, the capacity kept.
C7_Witness ==
  /\ pc = "returned" /\ dest.cls = "ptr" /\ IsSeq(dest) /\ ret.kind = "ok"
  /\ Len(pre.elems) = 2
  /\ cursor.pos = 1
  /\ Len(destVal.elems) = 1
  /\ destVal.cap = pre.cap

\* C8: a cursor that Query opened is closed once Query has returned, on
\* every exit path.
C8_CursorClosed == (pc = "returned" /\ cursor.opened) => cursor.closed

\* Query left by a panic raised while decoding, the cursor closed.
C8_Witness ==
  /\ pc = "returned" /\ ret.kind = "panic"
  /\ cursor.opened /\ cursor.closed

(***************************************************************************)
(* C10: Cols.                                                              *)
(***************************************************************************)
RECURSIVE TaggedLeaves(_, _)
\* The tagged leaf fields of a record type in declaration order, embedded
\* records flattened in place, each with the tags of its ancestors.
TaggedLeaves(fields, ancestors) ==
  IF Len(fields) = 0 THEN <<>>
  ELSE (IF ~fields[1].exported THEN <<>>
        ELSE IF fields[1].anon /\ fields[1].kind = "struct"
        THEN TaggedLeaves(fields[1].fields, ancestors)
        ELSE IF fields[1].tag \in {"", "-"} THEN <<>>
        ELSE IF fields[1].kind = "struct" /\ ~fields[1].scannable
        THEN TaggedLeaves(fields[1].fields, Append(ancestors, fields[1].tag))
        ELSE << [tag |-> fields[1].tag, ancestors |-> ancestors] >>)
       \o TaggedLeaves(Tail(fields), ancestors)

RECURSIVE QuotedHops(_)
\* "a2"."a3"...."an". for the hops after the first.
QuotedHops(tags) ==
  IF Len(tags) = 0 THEN "" ELSE Q \o tags[1] \o Q \o "." \o QuotedHops(Tail(tags))

Selector(leaf) ==
  IF Len(leaf.ancestors) = 0 THEN Q \o leaf.tag \o Q
  ELSE "(" \o Q \o leaf.ancestors[1] \o Q \o ")." \o QuotedHops(Tail(leaf.ancestors))
       \o Q \o leaf.tag \o Q \o " as "
       \o Q \o Join(Append(leaf.ancestors, leaf.tag)) \o Q

RECURSIVE JoinSelectors(_)
JoinSelectors(leaves) ==
  IF Len(leaves) = 0 THEN ""
  ELSE IF Len(leaves) = 1 THEN Selector(leaves[1])
  ELSE Selector(leaves[1]) \o ", " \o JoinSelectors(Tail(leaves))

\* C10: Cols(R) is the selectors of the tagged leaf fields of R in
\* declaration order, embedded records flattened, joined by a comma and a
\* space; for R = {val, nested: {val}} it is
\* "val", ("nested")."val" as "nested.val".
C10_ColsRendering ==
  ret.kind = "cols" =>
    /\ colsOut = JoinSelectors(TaggedLeaves(RecordTypes[dest.tn], <<>>))
    /\ dest.tn = "NestPtr" =>
         colsOut = "\"val\", (\"nested\").\"val\" as \"nested.val\""

\* C10 for the record types in which every tagged record has a tagged leaf.
C10_ColsRenderingOfLeaves ==
  (ret.kind = "cols" /\ dest.tn # "NoLeaves") =>
    /\ colsOut = JoinSelectors(TaggedLeaves(RecordTypes[dest.tn], <<>>))
    /\ dest.tn = "NestPtr" =>
         colsOut = "\"val\", (\"nested\").\"val\" as \"nested.val\""

(***************************************************************************)
(* C11: Cols and the plan builder.                                         *)
(***************************************************************************)
TaggedLeafNodes(spec) == {n \in TaggedNodes(spec) : n.spec.sfield.kind = "scalar"}

\* A query that selects Cols(R) into a record type with pairwise distinct aliases.
ColsQuery ==
  /\ plan.ran
  /\ cols = ColsAliases(RecordTypes[dest.tn])
  /\ ~HasDuplicate(AliasSeq(RecordTypes[dest.tn], <<>>))

\* C11: for R with pairwise distinct aliases, the plan for the column list
\* named by Cols(R) is built with success, the names of that list are
\* exactly the aliases of R's tagged leaf fields in the plan, and every
\* tagged leaf field has a column index >= 0.
C11_ColsMatchesPlan ==
  ColsQuery =>
    /\ plan.err.isNil
    /\ Range(cols) = {n.spec.colAlias : n \in TaggedLeafNodes(plan.spec)}
    /\ \A n \in TaggedLeafNodes(plan.spec) : n.spec.colIndex >= 0

\* C11 for the record types in which every tagged record has a tagged leaf.
C11_ColsMatchesPlanOfLeaves ==
  (ColsQuery /\ dest.tn # "NoLeaves") =>
    /\ plan.err.isNil
    /\ Range(cols) = {n.spec.colAlias : n \in TaggedLeafNodes(plan.spec)}
    /\ \A n \in TaggedLeafNodes(plan.spec) : n.spec.colIndex >= 0

NamedNestedNodes == {n \in NestedNodes : ~n.spec.sfield.anon}

\* Every leaf below the node has a null cell or no column in the result.
AllNullOrMissing(n) == \A l \in MappedLeavesBelow(n) : CellIsNull(l)

\* One of the node's own leaves has a column and a type that takes no null.
HasStrictDirectLeaf(n) ==
  \E l \in DirectMappedLeaves(n.spec.fieldSpecs, n.chain) :
    ~l.spec.sfield.ptr /\ ~l.spec.sfield.scannable

\* C14 as stated: when every column of a nested, non-embedded record is null
\* or missing, a field held by value makes the decode fail, and a field of a
\* pointer type that was nil is nil afterwards.
C14_NestedAllNull ==
  dec.ran =>
    \A n \in NamedNestedNodes :
      AllNullOrMissing(n) =>
        IF ~n.spec.sfield.ptr
        THEN ~dec.err.isNil
        ELSE Absent(dec.before, n.spec.fieldPath) => Absent(dec.after, n.spec.fieldPath)

\* A nested record held by value whose only column is there and null, of a
\* nilable leaf: the decode succeeds and the leaf is nil.
C14_ByValueDecoded ==
  /\ dec.ran /\ dec.err.isNil
  /\ dest.tn = "NestValPtr"
  /\ \E n \in NamedNestedNodes :
       /\ ~n.spec.sfield.ptr
       /\ MappedLeavesBelow(n) # {}
       /\ AllNullOrMissing(n)
       /\ ~HasStrictDirectLeaf(n)

(***************************************************************************)
(* C15: a record type with an embedded record against the type with the    *)
(* embedded fields written inline.                                         *)
(***************************************************************************)
\* The outcome of a Scan: success, a panic, or the code of the error.
Outcome(err) ==
  IF err = Panic THEN "panic" ELSE IF err.isNil THEN "ok" ELSE "error " \o err.Code

\* Both Scans gave the same outcome and, on success, the same leaf values.
SameAsInline ==
  /\ Outcome(IF ret.kind = "none" THEN NilErr
             ELSE IF ret.kind = "panic" THEN Panic ELSE ret.err) = Outcome(inl.err)
  /\ inl.err.isNil => inlineValue(IF IsSeq(dest) THEN destVal.elems[Len(destVal.elems)]
                                  ELSE destVal) = inl.val

\* A Scan into a destination of an embedding type has just ended.
EmbeddingScanned == inl.ran /\ pc \in {"many", "oneVerify", "returned"} /\ cnt.advances = cnt.decodes

\* C15: a Scan into a record type that embeds a record gives the outcome,
\* and on success the leaf values, of the same Scan into the type with the
\* embedded fields written inline.
C15_EmbeddingEquivalent == EmbeddingScanned => SameAsInline

\* The same for the embedding by value of a record type with an exported name.
C15_EmbeddingEquivalentExported ==
  (EmbeddingScanned /\ dest.tn = "Embedded") => SameAsInline

C15_ExportedWitness ==
  /\ EmbeddingScanned /\ dest.tn = "Embedded" /\ dec.ran
  /\ inl.err.Code = ErrCodeNull

(***************************************************************************)
(* C16: the cursor ends with its last error set.                           *)
(***************************************************************************)
\* C16: when Query has returned and the cursor stopped yielding rows with
\* its last error set, Query returned an error whose Cause is that error.
C16_CursorErrorReturned ==
  (pc = "returned" /\ cursor.err) =>
    (ret.kind = "err" /\ ret.err.Cause = "driver")

\* The same for the one advance whose failure scanOne reads: the first.
C16_CursorErrorOfFirstRow ==
  (pc = "returned" /\ cursor.err /\ ~IsSeq(dest) /\ cnt.advances = 1) =>
    (ret.kind = "err" /\ ret.err.Cause = "driver")

(***************************************************************************)
(* C17: the scanner's recorded type and plan.                              *)
(***************************************************************************)
\* A step that is one call of Scan on the scanner in the caller's hands.
ScanStep ==
  /\ pc \in {"stream", "streamDone"}
  /\ cnt'.decodes = cnt.decodes + 1

\* C17: the first Scan given a non-nil pointer records its type; a later Scan
\* given a pointer of another type returns InvalidDest, calls neither
\* rows.Columns() nor sql.Rows.Scan and leaves the destination and the
\* scanner as they were; and no step replaces a recorded type or a built plan.
C17_TypeRecordedOnce ==
  [][ /\ (ScanStep /\ dest'.cls = "ptr" /\ scan.rtype = NoType)
          => scan'.rtype = RtypeOf(dest')
      /\ (ScanStep /\ dest'.cls = "ptr" /\ scan.rtype \notin {NoType, RtypeOf(dest')})
          => /\ ret'.kind = "err"
             /\ ret'.err.Code = ErrCodeInvalidDest
             /\ cnt'.reads = cnt.reads
             /\ cnt'.fault = ""
             /\ destVal' = pre'
             /\ scan' = scan
             /\ ~dec'.ran
      /\ scan.rtype # NoType => scan'.rtype = scan.rtype
      /\ scan.spec.built => scan'.spec = scan.spec
    ]_vars

\* A scanner with a recorded record type and a built plan has just refused a
\* pointer to a string while a row was current.
C17_Witness ==
  /\ pc = "stream"
  /\ cursor.pos > 0
  /\ cnt.decodes >= 2
  /\ cnt.reads >= 1
  /\ scan.spec.built
  /\ scan.rtype = RtypeOf(Dest("ptr", "record", "Inline"))
  /\ dest = Dest("ptr", "scalar", "String")
  /\ ret.kind = "err"
  /\ ret.err.Code = ErrCodeInvalidDest
  /\ destVal = pre

(***************************************************************************)
(* C18: errors.Is on gos errors.                                           *)
(***************************************************************************)
\* Some error below the outermost one is the target, or is a gos error with
\* the target's code.
CauseChainMatches(a, b) ==
  \E i \in 2..Len(a) :
    \/ SubSeq(a, i, Len(a)) = b
    \/ a[i].gos /\ a[i].Code = b[1].Code

SameCode(a, b) == a[1].Code = b[1].Code

\* C18: errors.Is(a, b) on two gos errors is true exactly when a's cause
\* chain matches b or a and b have the same code; an error made from an
\* error variable by while or because matches the variable, and the
\* variables keep their values.
C18_ErrorsIs ==
  /\ errs.op = "is" => (errs.is = (CauseChainMatches(errs.a, errs.b) \/ SameCode(errs.a, errs.b)))
  /\ errs.op \in {"while", "because"} => errs.is
  /\ errs.vars = ErrVars

\* ErrNoRows.while(...) differs from ErrNoRows and matches it.
C18_Witness ==
  /\ errs.op = "while"
  /\ errs.a # errs.b
  /\ errs.b = Chain(ErrNoRows)
  /\ errs.a[1].While = "preparing row"
  /\ errs.is

\* Two gos errors with different codes, matched through a's cause.
C18_WitnessCause ==
  /\ errs.op = "is"
  /\ ~SameCode(errs.a, errs.b)
  /\ errs.is

(***************************************************************************)
(* C19: the errors of the driver as Query returns them.                    *)
(***************************************************************************)
StagePhrases == {"querying rows", "preparing row", "scanning row", "getting columns"}

WrappedDriverError ==
  /\ ret.kind = "err"
  /\ ret.err.Cause = "driver"
  /\ ret.err.While \in StagePhrases

\* C19: when Query has returned after QueryContext, rows.Columns() or
\* sql.Rows.Scan failed, or with the cursor's last error set, it returned a
\* gos error whose Cause is the driver's error and whose While is one of
\* the four stage phrases.
C19_DriverErrorsWrapped ==
  (pc = "returned" /\ (cnt.fault \in {"open", "columns", "read"} \/ cursor.err))
    => WrappedDriverError

\* The same for the failures the code wraps with a phrase: QueryContext,
\* rows.Columns(), and the cursor's error after the first advance of scanOne.
C19_OpenColumnsFirstRowWrapped ==
  (pc = "returned" /\ \/ cnt.fault \in {"open", "columns"}
                      \/ cursor.err /\ ~IsSeq(dest) /\ cnt.advances = 1)
    => WrappedDriverError

(***************************************************************************)
(* C20: a nested record with a non-null leaf in a deeper nested record.    *)
(***************************************************************************)
\* The mapped leaves of the records nested below the node, its own excluded.
DeeperLeaves(n) == {l \in MappedLeavesBelow(n) : Len(l.chain) > Len(n.chain) + 1}

\* C20: a nested record with a non-null leaf in a deeper nested record is
\* not elided: a direct leaf of it with a null cell and a type that is
\* neither nilable nor scan-capable makes the decode fail with Null.
C20_SubtreeDecidesElision ==
  dec.ran =>
    \A n \in NestedNodes :
      (\E l \in DeeperLeaves(n) : ~CellIsNull(l)) =>
        \A d \in DirectMappedLeaves(n.spec.fieldSpecs, n.chain) :
          (CellIsNull(d) /\ ~d.spec.sfield.ptr /\ ~d.spec.sfield.scannable)
            => (~dec.err.isNil /\ dec.err.Code = ErrCodeNull)

(***************************************************************************)
(* C21: a nilable nested record with a non-null leaf.                      *)
(***************************************************************************)
\* The value a destination holds for the leaf at path, nil when the record
\* that holds the leaf is absent.
LeafAt(rval, path) == IF Held(rval, path) THEN FieldValue(rval, path) ELSE NilVal

\* The leaves of the node's record type without a column, as paths from the root.
UnmappedLeavesBelow(n) ==
  {n.spec.fieldPath \o rel : rel \in TypeLeaves(n.spec.sfield.fields, <<>>)} \ MappedPaths

RelativePath(n, path) == SubSeq(path, Len(n.spec.fieldPath) + 1, Len(path))

\* The nested record is there, its non-null leaves hold their cells, its
\* null nilable leaves are absent, its leaves without a column are as in a
\* new record.
Materialised(n) ==
  /\ ~Absent(dec.after, n.spec.fieldPath)
  /\ \A l \in MappedLeavesBelow(n) :
       /\ ~CellIsNull(l) =>
            LeafAt(dec.after, l.spec.fieldPath) = Scalar(dec.cells[l.spec.colIndex])
       /\ (CellIsNull(l) /\ l.spec.sfield.ptr) => LeafAt(dec.after, l.spec.fieldPath).nil
  /\ \A path \in UnmappedLeavesBelow(n) :
       LeafAt(dec.after, path) = LeafAt(ZeroStruct(n.spec.sfield.fields), RelativePath(n, path))

NilableNestedWithValue(n) ==
  /\ n.spec.sfield.ptr
  /\ \E l \in MappedLeavesBelow(n) : ~CellIsNull(l)

\* C21: after a successful decode, a nested record of a nilable type with a
\* non-null mapped leaf is there, each of its non-null mapped leaves holds
\* its cell, its null mapped leaves of nilable type are absent, and its
\* leaves without a column are as in a newly allocated record.
C21_PartlyNullMaterialised ==
  (dec.ran /\ dec.err.isNil) =>
    \A n \in NestedNodes : NilableNestedWithValue(n) => Materialised(n)

\* The same when the nested record was absent before the decode and the
\* column list does not name a record itself.
C21_PartlyNullMaterialisedFresh ==
  (dec.ran /\ dec.err.isNil /\ \A m \in NestedNodes : m.spec.colIndex < 0) =>
    \A n \in NestedNodes :
      (NilableNestedWithValue(n) /\ Absent(dec.before, n.spec.fieldPath)) => Materialised(n)

(***************************************************************************)
(* C22: which records are elided.                                          *)
(***************************************************************************)
\* A nested record held by value below a nilable nested field.
ByValueUnderNilable(n) == ~n.spec.sfield.ptr /\ Elidable(Tail(n.chain))

DirectLeavesOf(n) == DirectMappedLeaves(n.spec.fieldSpecs, n.chain)

\* The decode did not store into the leaf: where the leaf is held afterwards
\* it holds what it held, or, in a record that was allocated meanwhile, the
\* zero value.
NotWritten(l) ==
  Held(dec.after, l.spec.fieldPath) =>
    IF Held(dec.before, l.spec.fieldPath)
    THEN FieldValue(dec.after, l.spec.fieldPath) = FieldValue(dec.before, l.spec.fieldPath)
    ELSE FieldValue(dec.after, l.spec.fieldPath) = Zero(l.spec.sfield)

\* The aliases a Null error for the record cites: its own and those of its
\* mapped direct leaves.
AliasesOfNode(n) == {n.spec.colAlias} \cup {l.spec.colAlias : l \in DirectLeavesOf(n)}

\* C22: a nested record held by value under a nilable ancestor, with every
\* mapped direct leaf null, raises no Null error, for itself or its leaves,
\* and none of its leaves is written; the root is never elided: a null cell
\* of a root leaf whose type is neither nilable nor scan-capable makes the
\* decode fail with Null.
C22_Elidable ==
  dec.ran =>
    /\ \A n \in NestedNodes :
         (ByValueUnderNilable(n) /\ \A l \in DirectLeavesOf(n) : CellIsNull(l)) =>
           /\ ~(dec.err.Code = ErrCodeNull /\ dec.err.Cause \in AliasesOfNode(n))
           /\ \A l \in DirectLeavesOf(n) : NotWritten(l)
    /\ \A l \in DirectMappedLeaves(scan.spec.fieldSpecs, <<>>) :
         (CellIsNull(l) /\ ~l.spec.sfield.ptr /\ ~l.spec.sfield.scannable)
           => (~dec.err.isNil /\ dec.err.Code = ErrCodeNull)

\* The same for a column list that names no nested record itself and a row
\* that leaves no field to its own Scan(nil).
C22_ElidableByLeaves ==
  (/\ \A n \in NestedNodes : n.spec.colIndex < 0
   /\ dec.ran => \A f \in LiveLeaves : ~LeftToScanNil(f)) => C22_Elidable

\* Deep: P is allocated for its own non-null leaf while Q, held by value in
\* it, has its only leaf null and is skipped; the decode succeeds.
C22_SkippedByValue ==
  /\ dec.ran /\ dec.err.isNil
  /\ dest.tn = "Deep"
  /\ \E n \in NestedNodes :
       /\ ByValueUnderNilable(n)
       /\ DirectLeavesOf(n) # {}
       /\ \A l \in DirectLeavesOf(n) : CellIsNull(l) /\ ~l.spec.sfield.ptr
       /\ ~Absent(dec.after, n.spec.fieldPath)

(***************************************************************************)
(* C23: the decode of one row into destinations with different contents.   *)
(***************************************************************************)
MappedLeafNodes == {n \in PlanNodes : IsMappedLeaf(n)}

\* What the destinations of the type may hold before a decode.
PriorContents == {ZeroStruct(RecordTypes[dest.tn]), Populated(RecordTypes[dest.tn])}

\* The decode of the same row with the same plan into another destination,
\* with a field's Scan(nil) doing s.
DecodeInto(prior, s) ==
  traverseDecode(prior, RecordTypes[dest.tn], dec.cells, scan.spec.fieldSpecs, <<>>, s)

\* What Scan(nil) may have done in the decode that was observed to succeed.
ScanNilsOfDecode ==
  {s \in {"keep", "zero"} : DecodeInto(dec.before, s) = [err |-> NilErr, root |-> dec.after]}

SameLeaves(leaves, other) ==
  other.err.isNil =>
    \A l \in leaves : LeafAt(dec.after, l.spec.fieldPath) = LeafAt(other.root, l.spec.fieldPath)

\* C23: after a successful decode every leaf with a column holds what it
\* holds after the decode of the same row into a destination of the same
\* type with other prior contents.
C23_ReuseDeterministic ==
  (dec.ran /\ dec.err.isNil) =>
    \A prior \in PriorContents, s \in ScanNilsOfDecode :
      SameLeaves(MappedLeafNodes, DecodeInto(prior, s))

\* The same for the leaves of records that are not elided, leaving out the
\* leaves whose content after a null cell is up to their own Scan(nil).
C23_LiveLeavesDeterministic ==
  (dec.ran /\ dec.err.isNil) =>
    \A prior \in PriorContents, s \in ScanNilsOfDecode :
      SameLeaves({l \in LiveLeaves : ~LeftToScanNil(l)}, DecodeInto(prior, s))

(***************************************************************************)
(* C24: advances of the cursor and decodes of rows in one Query.           *)
(***************************************************************************)
DecodeStep == cnt'.decodes = cnt.decodes + 1
AdvanceStep == cnt'.advances = cnt.advances + 1
AppendStep == pc = "manyScan" /\ pc' = "many"

\* The cursor stands on the row after the ones decoded, and every call of
\* Next so far yielded a row.
OnNextRow == cursor.pos = cnt.decodes + 1 /\ cnt.advances = cursor.pos

\* Every row the cursor yielded was decoded.
AllDecoded == cnt.decodes = cursor.pos /\ cnt.advances = cursor.pos

\* The decode of the step took the cursor's row into a fresh element.
FreshDecodeOfCurrent ==
  IF IsRecord(dest)
  THEN /\ dec'.ran
       /\ dec'.cells = cursor.cur
       /\ dec'.before = ZeroElem(dest)
       /\ destVal'.elems[cursor.pos] = dec'.after
  ELSE destVal'.elems[cursor.pos] \in
         IF cursor.cur[1] = Null THEN {NilVal, Scalar("")} ELSE {Scalar(cursor.cur[1])}

\* C24: every decode is of the row of one successful advance made since the
\* decode before it, every advance follows the decode of the row before, and
\* a decode that succeeds in a sequence Query puts the decoding of the i-th
\* row into a fresh element at index i, the elements before it unchanged.
C24_OneAdvancePerDecode ==
  [][/\ DecodeStep => (OnNextRow /\ cursor'.pos = cursor.pos /\ (dec'.ran => dec'.cells = cursor.cur))
     /\ AdvanceStep => (AllDecoded /\ cnt'.decodes = cnt.decodes)
     /\ AppendStep =>
          /\ DecodeStep
          /\ Len(destVal'.elems) = cursor.pos
          /\ SubSeq(destVal'.elems, 1, cursor.pos - 1) = destVal.elems
          /\ FreshDecodeOfCurrent]_vars

C24_Witness ==
  /\ pc = "returned" /\ ret.kind = "ok"
  /\ IsSeq(dest) /\ IsRecord(dest)
  /\ cnt.decodes = 2 /\ cnt.advances = 3
  /\ Len(destVal.elems) = 2
  /\ destVal.elems[1] # destVal.elems[2]
  /\ destVal.elems[2] = dec.after

(***************************************************************************)
(* C25: nested records and columns.                                        *)
(***************************************************************************)
\* The nested record was present before the decode and is nil after it.
NulledByOwnColumn(n) ==
  /\ n.spec.colIndex >= 0
  /\ Held(dec.before, n.spec.fieldPath) /\ ~Absent(dec.before, n.spec.fieldPath)
  /\ Held(dec.after, n.spec.fieldPath) /\ Absent(dec.after, n.spec.fieldPath)

\* C25: in a plan no field descended into as a nested record has a column
\* index, and no decode stores a cell into a nested record field itself.
C25_InteriorDisjoint ==
  /\ scan.spec.built => \A n \in NestedNodes : n.spec.colIndex < 0
  /\ (dec.ran /\ dec.err.isNil) => \A n \in NestedNodes : ~NulledByOwnColumn(n)

\* The same without a column named like a nested record.
C25_InteriorDisjointNoOwnColumn ==
  (\A n \in NestedNodes : stringIndex(cols, n.spec.colAlias) < 0) => C25_InteriorDisjoint

(***************************************************************************)
(* C26: the destination of a single-row Query that fails with MultipleRows.*)
(***************************************************************************)
ReturnsMultipleRows ==
  pc # "returned" /\ pc' = "returned" /\ ret'.kind = "err" /\ ret'.err.Code = ErrCodeMultipleRows

\* The destination holds the decoding of the cursor's row into what it held
\* when Query was called; after the Scan(nil) of a scalar, the zero value or
\* what it held.
HoldsDecodedRow ==
  IF IsRecord(dest)
  THEN dec.ran /\ dec.cells = cursor.cur /\ dec.before = pre
       /\ \E s \in {"keep", "zero"} : DecodeInto(pre, s) = [err |-> NilErr, root |-> destVal]
  ELSE destVal \in IF cursor.cur[1] # Null THEN {Scalar(cursor.cur[1])}
                   ELSE IF ScalarTypes[dest.tn].ptr THEN {NilVal}
                   ELSE {pre, Scalar("")}

\* C26: Query returns MultipleRows only from the row-count check of scanOne,
\* with the first row decoded into the destination, and the return leaves
\* the destination as the decode left it.
C26_MultipleRowsOverwrites ==
  [][ReturnsMultipleRows =>
       /\ pc = "oneVerify" /\ ~IsSeq(dest)
       /\ cursor.pos = 1 /\ cursor'.pos = 2
       /\ HoldsDecodedRow
       /\ destVal' = destVal]_vars

\* MultipleRows returned, and the destination no longer holds what it held.
C26_Witness ==
  /\ SingleReturned /\ ret.kind = "err" /\ ret.err.Code = ErrCodeMultipleRows
  /\ pre = OldElem(dest)
  /\ destVal # pre
  /\ IsRecord(dest) => (destVal = dec.after /\ \E l \in MappedLeafNodes : ~CellIsNull(l))

(***************************************************************************)
(* C27: when the plan is built.                                            *)
(***************************************************************************)
PlanErrCodes == {ErrCodeNoColDest, ErrCodeRedundantCol}

\* The plan for the destination's type and the column list has an error.
PlanWouldFail ==
  /\ IsRecord(dest)
  /\ prepareDestSpec(cols, FALSE, RecordTypes[dest.tn]).err.Code \in PlanErrCodes

\* The cursor was opened and ended, without an error, before any row.
EmptyResult ==
  pc = "returned" /\ dest.cls = "ptr" /\ cursor.opened /\ cursor.pos = 0 /\ ~cursor.err

\* C27: no plan is built before the first row decode; with an empty result
\* Query into a sequence returns success and Query into a single record
\* returns NoRows whatever the plan would be; and when a plan error is
\* returned for a sequence the sequence has length zero.
C27_PlanAtFirstDecode ==
  /\ cnt.decodes = 0 => (~plan.ran /\ ~scan.spec.built)
  /\ EmptyResult =>
       IF IsSeq(dest) THEN ret.kind = "ok"
       ELSE ret.kind = "err" /\ ret.err.Code = ErrCodeNoRows
  /\ (pc = "returned" /\ IsSeq(dest) /\ ret.kind = "err" /\ ret.err.Code \in PlanErrCodes) =>
       /\ plan.ran /\ plan.err = ret.err
       /\ cnt.decodes = 1
       /\ destVal.elems = <<>>

\* A sequence that held elements, empty after the plan error of the first row.
C27_Witness ==
  /\ pc = "returned" /\ IsSeq(dest) /\ PlanWouldFail
  /\ ret.kind = "err" /\ ret.err.Code \in PlanErrCodes
  /\ Len(pre.elems) = 2 /\ destVal.elems = <<>>

\* An empty result for a type and a column list that have no plan.
C27_EmptyWitness ==
  EmptyResult /\ PlanWouldFail /\ ~IsSeq(dest) /\ ret.err.Code = ErrCodeNoRows

(***************************************************************************)
(* C28: a decode that fails in a sequence Query.                           *)
(***************************************************************************)
FailedSeqDecode == pc = "manyScan" /\ DecodeStep /\ pc' = "returned" /\ ret'.kind = "err"

\* C28: when the decode of the k-th row of a sequence Query fails, Query
\* returns the error on that step with no further advance, and the sequence
\* stays as the k-1 decodes before left it: the failed element is not
\* appended and no prior element is put back.
C28_FailedRowNotAppended ==
  [][/\ FailedSeqDecode =>
          /\ ~ret'.err.isNil
          /\ cursor'.pos = cursor.pos /\ cnt'.advances = cnt.advances
          /\ cnt'.decodes = cursor.pos
          /\ destVal' = destVal
          /\ Len(destVal'.elems) = cursor.pos - 1
          /\ \A i \in 1..Len(destVal'.elems) : destVal'.elems[i] # OldElem(dest)
     /\ (pc = "manyScan" /\ pc' = "many") => (dec'.err.isNil /\ plan'.err.isNil)]_vars

\* The second row failed to decode after the first was appended.
C28_Witness ==
  /\ pc = "returned" /\ IsSeq(dest) /\ ret.kind = "err"
  /\ cnt.decodes = 2 /\ cursor.pos = 2 /\ cnt.advances = 2
  /\ Len(destVal.elems) = 1
  /\ Len(pre.elems) = 2

(***************************************************************************)
(* C29: a column list with a name more than once.                          *)
(***************************************************************************)
RECURSIVE Dedup(_)
\* The column list without the later occurrences of its names.
Dedup(names) ==
  IF names = <<>> THEN <<>>
  ELSE LET front == Front(names)
           last == names[Len(names)]
       IN IF \E i \in 1..Len(front) : front[i] = last
          THEN Dedup(front) ELSE Append(Dedup(front), last)

AliasedNodes == {n \in PlanNodes : n.spec.colAlias # ""}

IsFirstOccurrence(n) ==
  IF n.spec.colIndex >= 1
  THEN /\ n.spec.colIndex <= Len(cols)
       /\ cols[n.spec.colIndex] = n.spec.colAlias
       /\ \A j \in 1..(n.spec.colIndex - 1) : cols[j] # n.spec.colAlias
  ELSE \A j \in 1..Len(cols) : cols[j] # n.spec.colAlias

\* What a leaf holds after the decode of the first cell of its alias; after
\* the Scan(nil) of a field the zero value or what the field held.
FirstCellDecoded(l) ==
  LET cell == dec.cells[stringIndexFrom(cols, l.spec.colAlias, 1)]
  IN IF cell # Null THEN {Scalar(cell)}
     ELSE IF l.spec.sfield.ptr THEN {NilVal}
     ELSE {Scalar("")} \cup (IF Held(dec.before, l.spec.fieldPath)
                             THEN {FieldValue(dec.before, l.spec.fieldPath)} ELSE {})

\* C29: repeating a name in the column list does not change whether the plan
\* is built; a field's index is that of the first occurrence of its alias;
\* after a successful decode a field holds the decoding of the cell of that
\* first occurrence, whatever the cells of the later occurrences are; and no
\* two fields of a plan have the same index.
C29_FirstOccurrence ==
  /\ plan.ran =>
       (plan.err.isNil <=> prepareDestSpec(Dedup(cols), FALSE, RecordTypes[dest.tn]).err.isNil)
  /\ scan.spec.built =>
       /\ \A n \in AliasedNodes : IsFirstOccurrence(n)
       /\ \A n, o \in AliasedNodes :
            (n.spec.colIndex >= 1 /\ n.spec.colIndex = o.spec.colIndex) => n = o
  /\ (dec.ran /\ dec.err.isNil) =>
       \A l \in LiveLeaves :
         Held(dec.after, l.spec.fieldPath) =>
           FieldValue(dec.after, l.spec.fieldPath) \in FirstCellDecoded(l)

\* A row with a null and a non-null cell in two columns of one name, decoded:
\* the field is nil.
C29_Witness ==
  /\ dec.ran /\ dec.err.isNil /\ scan.spec.built
  /\ Len(cols) = 2 /\ cols[1] = cols[2]
  /\ dec.cells[1] = Null /\ dec.cells[2] # Null
  /\ \E l \in LiveLeaves :
       /\ l.spec.colIndex = 1 /\ l.spec.sfield.ptr
       /\ Held(dec.before, l.spec.fieldPath) /\ FieldValue(dec.before, l.spec.fieldPath) # NilVal
       /\ FieldValue(dec.after, l.spec.fieldPath) = NilVal

(***************************************************************************)
(* C30: Query whose cursor could not be opened.                            *)
(***************************************************************************)
OpenFailed == pc = "returned" /\ dest.cls = "ptr" /\ cnt.fault = "open"

\* C30: when opening the cursor fails for a valid pointer destination, Query
\* returns the error with no cursor, no advance and no decode, and the
\* destination holds what it held before the call.
C30_OpenErrorKeepsDest ==
  OpenFailed =>
    /\ ret.kind = "err" /\ ret.err = Err("", "querying rows", "driver")
    /\ ~cursor.opened
    /\ cnt.advances = 0 /\ cnt.decodes = 0 /\ ~plan.ran /\ ~dec.ran
    /\ destVal = pre

\* A sequence of two elements, kept whole by the failed open.
C30_Witness ==
  /\ OpenFailed /\ IsSeq(dest)
  /\ Len(pre.elems) = 2 /\ Len(destVal.elems) = 2
  /\ ret.err.While = "querying rows"
====
